---------------------------- MODULE Spec2Model ----------------------------
(***************************************************************************)
(* Model of the earnings-reaction trading bot (dawidkubicki/codi).         *)
(*                                                                         *)
(* Three components are modelled, each with its own specification:         *)
(*   SimSpec   Backtester.simulate_trade     (src/backtester.py)           *)
(*   RiskSpec  RiskManager                   (src/risk_manager.py)         *)
(*   LiveSpec  main_loop / run_daily_analysis (src/main.py)                *)
(*                                                                         *)
(* Arithmetic.  The program computes with Python floats.  The model uses   *)
(* exact fixed-point integers: a percentage argument p stands for          *)
(* p / PctScale, and a derived price is kept multiplied by PctScale, so    *)
(* that entry_price * (1 + pct) is the integer entry_price*(PctScale+p).   *)
(* Binary floating-point rounding error of the products is not modelled.   *)
(***************************************************************************)
EXTENDS Integers, Sequences, FiniteSets, TLC

VARIABLES
    component,          \* which component this behaviour exercises
    \* ---- Backtester.simulate_trade ----
    df,                 \* the bars fetched: date -> index into BarShapes, 0 = no bar
    req_entry_date,     \* the entry_date argument as passed by the caller
    entry_date,         \* the local entry_date (reassigned at backtester.py:100)
    take_profit_pct,    \* argument, in 1/PctScale
    stop_loss_pct,      \* argument, in 1/PctScale
    hold_days,          \* argument
    sim_pc,             \* position inside simulate_trade
    entry_price,        \* df.loc[entry_date, 'close']
    take_profit_price,  \* scaled by PctScale
    stop_loss_price,    \* scaled by PctScale
    future_dates,       \* the holding window (sequence of dates)
    day_i,              \* index of trade_date in future_dates
    exit,               \* exit_date / exit_price / exit_reason locals
    sim_result,         \* the returned dict, or NoneResult
    \* ---- RiskManager ----
    daily_start_balance,    \* Optional[float], whole currency units
    max_drawdown_balance,   \* Optional[float]: the high-water mark
    risk_call,          \* the last RiskManager call: method, arguments, outcome
    \* ---- main_loop / run_daily_analysis ----
    live_pc,            \* position inside main_loop and run_daily_analysis
    clock,              \* wall clock: calendar day and part of the day
    last_analysis_date, \* main_loop local; 0 is None
    today,              \* main_loop local: date.today() of this iteration
    open_position,      \* whether the account holds an open position
    account_equity,     \* the broker's current account equity
    equity,             \* run_daily_analysis local
    updates_today,      \* set_daily_start_balance calls made on clock.day
    faults,             \* exceptions raised so far
    \* best-candidate selection: StockAnalyzer.find_best_stock (src/analyzer.py)
    \* and the selection part of FullBacktester.simulate_day (src/backtest_full.py)
    sel_path,           \* "live" or "backtest"
    sel_config,         \* AnalysisConfig thresholds of the run
    tradable,           \* what the providers hold for each ticker, in input order
    sel_pc,             \* position inside the selection
    sel_i,              \* index of the ticker the loop analyses next
    results,            \* results / analyzed_stocks
    quality_results,    \* the results that passed the quality filter
    best,               \* the top-ranked candidate
    sel_result,         \* the returned candidate, or None
    \* the reaction statistics of one ticker (a pure computation)
    stat_call,          \* the last computation: its arguments and its result
    \* the reaction sampling of one ticker: analyze_stock_earnings
    \* (src/analyzer.py) and analyze_stock_history (src/backtest_full.py)
    ana_path,           \* "live" or "backtest"
    get_loc_method,     \* what Index.get_loc(..., method='ffill') does in the build
    hist,               \* hist / df: the daily bars, in date order
    relevant_dates,     \* relevant_dates / past_earnings_dates, in loop order
    ana_pc,             \* position inside the analysis
    ana_i,              \* index of the event the loop handles next
    all_gains,          \* all_gains
    all_drawdowns,      \* all_drawdowns
    samples,            \* for each sample taken: its event, anchor and window
    ana_result,         \* the returned statistics, or None
    \* the backtests: FullBacktester.run_full_backtest
    \* (src/backtest_full.py) and Backtester.backtest_strategy
    \* (src/backtester.py)
    bt_mode,            \* "full" or "strategy"
    bt_pc,              \* position inside the backtest
    start_weekday,      \* weekday() of start_date (0 is Monday)
    last_date,          \* end_date, or len(test_stocks)
    current_date,       \* current_date, or the place in test_stocks
    capital,            \* self.capital / capital
    trades,             \* self.trades / trades
    daily_log,          \* self.daily_log: the EquityPoints
    day_result,         \* how the last simulate_day ended
    sim_request,        \* the last call of simulate_trade: its arguments
    bt_stats,           \* the returned statistics, or None
    \* ---- Database (src/database.py): the trades table ----
    db_path,            \* self.db_path: a file, or ":memory:"
    db_trades,          \* the rows of trades, in id order: ticker and status
    db_call             \* the last Database call: method, arguments, outcome

simVars == <<df, req_entry_date, entry_date, take_profit_pct, stop_loss_pct,
             hold_days, sim_pc, entry_price, take_profit_price,
             stop_loss_price, future_dates, day_i, exit, sim_result>>

riskVars == <<daily_start_balance, max_drawdown_balance>>

liveVars == <<live_pc, clock, last_analysis_date, today, open_position,
              account_equity, equity, updates_today, faults>>

selVars == <<sel_path, sel_config, tradable, sel_pc, sel_i, results,
             quality_results, best, sel_result>>

dbVars == <<db_path, db_trades, db_call>>

btVars == <<bt_mode, bt_pc, start_weekday, last_date, current_date, capital,
            trades, daily_log, day_result, sim_request, bt_stats>>

anaVars == <<ana_path, get_loc_method, hist, relevant_dates, ana_pc, ana_i,
             all_gains, all_drawdowns, samples, ana_result>>

vars == <<component, simVars, riskVars, risk_call, liveVars, selVars,
          stat_call, anaVars,
          btVars, dbVars>>

----------------------------------------------------------------------------
(* Bounds of the model *)

MaxDate == 4            \* calendar days covered by a fetched series
MaxHold == 2            \* largest hold_days argument tried
MaxDay == 2             \* calendar days a live session is followed for
MaxFaults == 2          \* exceptions a live session is followed through

(* pnl_pct = (pnl / entry_price) * 100, and percentages are hundredths *)
PctScale == 100

Dates == 1..MaxDate

(* The daily bars a series is built from (high, low, close). *)
BarShapes ==
    << [high |-> 105, low |-> 97, close |-> 100],
       [high |-> 112, low |-> 98, close |-> 103],
       [high |-> 101, low |-> 92, close |-> 95],
       [high |-> 110, low |-> 90, close |-> 100] >>

(* (take_profit_pct, stop_loss_pct) argument pairs tried *)
TargetPairs == { <<10, -8>>, <<3, -3>> }

NoneResult == [kind |-> "None"]

NoExit == [is_none |-> TRUE, date |-> 0, price |-> 0,
           reason |-> "Hold period expired"]

(* Optional[float]: None, or a balance *)
NoBalance == [is_none |-> TRUE, v |-> 0]
Some(b) == [is_none |-> FALSE, v |-> b]

NoCall == [op |-> "none"]

(* the live loop's variables when another component runs *)
LiveIdle ==
    /\ live_pc = "idle"
    /\ clock = [day |-> 1, part |-> "before"]
    /\ last_analysis_date = 0
    /\ today = 0
    /\ open_position = FALSE
    /\ account_equity = 0
    /\ equity = 0
    /\ updates_today = 0
    /\ faults = 0

(* no statistics computed when another component runs *)
StatIdle == stat_call = NoCall

(* the reaction sampling's variables when another component runs *)
AnaIdle ==
    /\ ana_path = "live"
    /\ get_loc_method = "pad"
    /\ hist = << >>
    /\ relevant_dates = << >>
    /\ ana_pc = "idle"
    /\ ana_i = 0
    /\ all_gains = << >>
    /\ all_drawdowns = << >>
    /\ samples = << >>
    /\ ana_result = NoneResult

(* the database's variables when another component runs: the file of     *)
(* config.py:184 with an empty trades table                                *)
DbIdle ==
    /\ db_path = "file"
    /\ db_trades = << >>
    /\ db_call = NoCall

(* the backtests' variables when another component runs *)
BtIdle ==
    /\ bt_mode = "full"
    /\ bt_pc = "idle"
    /\ start_weekday = 0
    /\ last_date = 0
    /\ current_date = 0
    /\ capital = 0
    /\ trades = << >>
    /\ daily_log = << >>
    /\ day_result = "none"
    /\ sim_request = NoCall
    /\ bt_stats = NoneResult

(* the selection's variables when another component runs *)
SelIdle ==
    /\ sel_path = "live"
    /\ sel_config = [min_score_threshold |-> 0, min_avg_gain |-> 0]
    /\ tradable = << >>
    /\ sel_pc = "idle"
    /\ sel_i = 0
    /\ results = << >>
    /\ quality_results = << >>
    /\ best = NoneResult
    /\ sel_result = NoneResult

(* RiskManager.__init__ (risk_manager.py:17-22) *)
RiskIdle ==
    /\ daily_start_balance = NoBalance
    /\ max_drawdown_balance = NoBalance
    /\ risk_call = NoCall

----------------------------------------------------------------------------
(* Backtester.simulate_trade *)

RECURSIVE SortedSeq(_)
SortedSeq(S) ==
    IF S = {} THEN << >>
    ELSE LET m == CHOOSE x \in S : \A y \in S : x <= y
         IN  <<m>> \o SortedSeq(S \ {m})

(* df.index: the dates that have a bar, in the provider's chronological order *)
DfIndex(frame) == SortedSeq({d \in Dates : frame[d] # 0})

Row(frame, d) == BarShapes[frame[d]]

InSeq(x, s) == \E i \in 1..Len(s) : s[i] = x

(* faulty variant: the filter on entry_date is dropped *)
NearestUnfiltered(frame, e) == DfIndex(frame)

(* nearest = [d for d in df.index if d >= entry_date] *)
Nearest(frame, e) ==
    LET Keep(d) == d >= e IN SelectSeq(DfIndex(frame), Keep)

(* faulty variant: the window starts on the entry day itself (>= for >) *)
FutureDatesFromEntry(frame, e, h) ==
    LET Keep(d) == d >= e
        after == SelectSeq(DfIndex(frame), Keep)
    IN  SubSeq(after, 1, IF Len(after) < h THEN Len(after) ELSE h)

(* future_dates = [d for d in df.index if d > entry_date][:hold_days] *)
FutureDates(frame, e, h) ==
    LET Keep(d) == d > e
        after == SelectSeq(DfIndex(frame), Keep)
    IN  SubSeq(after, 1, IF Len(after) < h THEN Len(after) ELSE h)

(* entry_price * (1 + pct), scaled by PctScale *)
TargetPrice(price, pct) == price * (PctScale + pct)

(* faulty variant: the stop loss is tested before the take profit *)
DayOutcomeStopFirst(row, tp, sl) ==
    IF row.low * PctScale <= sl THEN "Stop loss hit"
    ELSE IF row.high * PctScale >= tp THEN "Take profit hit"
    ELSE "none"

(* the per-day test of the loop body: take profit first, then stop loss *)
DayOutcome(row, tp, sl) ==
    IF row.high * PctScale >= tp THEN "Take profit hit"
    ELSE IF row.low * PctScale <= sl THEN "Stop loss hit"
    ELSE "none"

(* faulty variant: the time exit takes the first day of the window *)
FirstDay(fd) == fd[1]

(* exit_date = future_dates[-1] *)
LastDay(fd) == fd[Len(fd)]

SimIdle ==
    /\ df = [d \in Dates |-> 0]
    /\ req_entry_date = 1
    /\ entry_date = 1
    /\ take_profit_pct = 0
    /\ stop_loss_pct = 0
    /\ hold_days = 1
    /\ sim_pc = "idle"
    /\ entry_price = 0
    /\ take_profit_price = 0
    /\ stop_loss_price = 0
    /\ future_dates = << >>
    /\ day_i = 0
    /\ exit = NoExit
    /\ sim_result = NoneResult

SimInit ==
    /\ component = "simulator"
    /\ df \in [Dates -> 0..Len(BarShapes)]
    /\ req_entry_date \in Dates
    /\ entry_date = req_entry_date
    /\ \E p \in TargetPairs : take_profit_pct = p[1] /\ stop_loss_pct = p[2]
    /\ hold_days \in 1..MaxHold
    /\ sim_pc = "call"
    /\ entry_price = 0
    /\ take_profit_price = 0
    /\ stop_loss_price = 0
    /\ future_dates = << >>
    /\ day_i = 0
    /\ exit = NoExit
    /\ sim_result = NoneResult
    /\ RiskIdle
    /\ LiveIdle
    /\ SelIdle
    /\ StatIdle
    /\ DbIdle
    /\ BtIdle
    /\ AnaIdle

SimReturnNone ==
    /\ sim_pc' = "done"
    /\ sim_result' = NoneResult

(* backtester.py:76-78  no bars for the ticker *)
SimNoData ==
    /\ component = "simulator" /\ sim_pc = "call"
    /\ DfIndex(df) = << >>
    /\ SimReturnNone
    /\ UNCHANGED <<dbVars, btVars, riskVars, risk_call, liveVars, selVars, stat_call, anaVars,
                   component, df, req_entry_date, entry_date, take_profit_pct,
                   stop_loss_pct, hold_days, entry_price, take_profit_price,
                   stop_loss_price, future_dates, day_i, exit>>

(* backtester.py:94  entry_date is a trading day *)
SimEntryExact ==
    /\ component = "simulator" /\ sim_pc = "call"
    /\ DfIndex(df) # << >>
    /\ InSeq(entry_date, DfIndex(df))
    /\ sim_pc' = "entry"
    /\ UNCHANGED <<dbVars, btVars, riskVars, risk_call, liveVars, selVars, stat_call, anaVars,
                   component, df, req_entry_date, entry_date, take_profit_pct,
                   stop_loss_pct, hold_days, entry_price, take_profit_price,
                   stop_loss_price, future_dates, day_i, exit, sim_result>>

(* backtester.py:94-100  entry_date is not a trading day: nearest[0] *)
SimEntryNearest ==
    /\ component = "simulator" /\ sim_pc = "call"
    /\ DfIndex(df) # << >>
    /\ ~InSeq(entry_date, DfIndex(df))
    /\ Nearest(df, entry_date) # << >>
    /\ entry_date' = Nearest(df, entry_date)[1]
    /\ sim_pc' = "entry"
    /\ UNCHANGED <<dbVars, btVars, riskVars, risk_call, liveVars, selVars, stat_call, anaVars,
                   component, df, req_entry_date, take_profit_pct,
                   stop_loss_pct, hold_days, entry_price, take_profit_price,
                   stop_loss_price, future_dates, day_i, exit, sim_result>>

(* backtester.py:97-99  no trading data on or after entry_date *)
SimNoEntry ==
    /\ component = "simulator" /\ sim_pc = "call"
    /\ DfIndex(df) # << >>
    /\ ~InSeq(entry_date, DfIndex(df))
    /\ Nearest(df, entry_date) = << >>
    /\ SimReturnNone
    /\ UNCHANGED <<dbVars, btVars, riskVars, risk_call, liveVars, selVars, stat_call, anaVars,
                   component, df, req_entry_date, entry_date, take_profit_pct,
                   stop_loss_pct, hold_days, entry_price, take_profit_price,
                   stop_loss_price, future_dates, day_i, exit>>

(* backtester.py:102-118  entry price, targets, holding window *)
SimBegin ==
    /\ component = "simulator" /\ sim_pc = "entry"
    /\ FutureDates(df, entry_date, hold_days) # << >>
    /\ entry_price' = Row(df, entry_date).close
    /\ take_profit_price' = TargetPrice(Row(df, entry_date).close, take_profit_pct)
    /\ stop_loss_price' = TargetPrice(Row(df, entry_date).close, stop_loss_pct)
    /\ future_dates' = FutureDates(df, entry_date, hold_days)
    /\ day_i' = 1
    /\ exit' = NoExit
    /\ sim_pc' = "loop"
    /\ UNCHANGED <<dbVars, btVars, riskVars, risk_call, liveVars, selVars, stat_call, anaVars,
                   component, df, req_entry_date, entry_date, take_profit_pct,
                   stop_loss_pct, hold_days, sim_result>>

(* backtester.py:111-113  no future trading dates *)
SimNoFuture ==
    /\ component = "simulator" /\ sim_pc = "entry"
    /\ FutureDates(df, entry_date, hold_days) = << >>
    /\ entry_price' = Row(df, entry_date).close
    /\ take_profit_price' = TargetPrice(Row(df, entry_date).close, take_profit_pct)
    /\ stop_loss_price' = TargetPrice(Row(df, entry_date).close, stop_loss_pct)
    /\ SimReturnNone
    /\ UNCHANGED <<dbVars, btVars, riskVars, risk_call, liveVars, selVars, stat_call, anaVars,
                   component, df, req_entry_date, entry_date, take_profit_pct,
                   stop_loss_pct, hold_days, future_dates, day_i, exit>>

(* backtester.py:120-128  the day's high reaches the take-profit price *)
SimTakeProfit ==
    /\ component = "simulator" /\ sim_pc = "loop"
    /\ day_i <= Len(future_dates)
    /\ DayOutcome(Row(df, future_dates[day_i]), take_profit_price,
                  stop_loss_price) = "Take profit hit"
    /\ exit' = [is_none |-> FALSE, date |-> future_dates[day_i],
                price |-> take_profit_price, reason |-> "Take profit hit"]
    /\ sim_pc' = "after_loop"
    /\ UNCHANGED <<dbVars, btVars, riskVars, risk_call, liveVars, selVars, stat_call, anaVars,
                   component, df, req_entry_date, entry_date, take_profit_pct,
                   stop_loss_pct, hold_days, entry_price, take_profit_price,
                   stop_loss_price, future_dates, day_i, sim_result>>

(* backtester.py:130-135  the day's low reaches the stop-loss price *)
SimStopLoss ==
    /\ component = "simulator" /\ sim_pc = "loop"
    /\ day_i <= Len(future_dates)
    /\ DayOutcome(Row(df, future_dates[day_i]), take_profit_price,
                  stop_loss_price) = "Stop loss hit"
    /\ exit' = [is_none |-> FALSE, date |-> future_dates[day_i],
                price |-> stop_loss_price, reason |-> "Stop loss hit"]
    /\ sim_pc' = "after_loop"
    /\ UNCHANGED <<dbVars, btVars, riskVars, risk_call, liveVars, selVars, stat_call, anaVars,
                   component, df, req_entry_date, entry_date, take_profit_pct,
                   stop_loss_pct, hold_days, entry_price, take_profit_price,
                   stop_loss_price, future_dates, day_i, sim_result>>

(* backtester.py:120  neither trigger: next trade_date *)
SimNextDay ==
    /\ component = "simulator" /\ sim_pc = "loop"
    /\ day_i <= Len(future_dates)
    /\ DayOutcome(Row(df, future_dates[day_i]), take_profit_price,
                  stop_loss_price) = "none"
    /\ day_i' = day_i + 1
    /\ UNCHANGED <<dbVars, btVars, riskVars, risk_call, liveVars, selVars, stat_call, anaVars,
                   component, df, req_entry_date, entry_date, take_profit_pct,
                   stop_loss_pct, hold_days, sim_pc, entry_price,
                   take_profit_price, stop_loss_price, future_dates, exit,
                   sim_result>>

(* backtester.py:120  the loop runs out of days *)
SimLoopEnd ==
    /\ component = "simulator" /\ sim_pc = "loop"
    /\ day_i > Len(future_dates)
    /\ sim_pc' = "after_loop"
    /\ UNCHANGED <<dbVars, btVars, riskVars, risk_call, liveVars, selVars, stat_call, anaVars,
                   component, df, req_entry_date, entry_date, take_profit_pct,
                   stop_loss_pct, hold_days, entry_price, take_profit_price,
                   stop_loss_price, future_dates, day_i, exit, sim_result>>

(* backtester.py:137-157  time exit if nothing was hit, then the results *)
SimReturn ==
    /\ component = "simulator" /\ sim_pc = "after_loop"
    /\ LET x == IF exit.is_none
                THEN [is_none |-> FALSE, date |-> LastDay(future_dates),
                      price |-> Row(df, LastDay(future_dates)).close * PctScale,
                      reason |-> exit.reason]
                ELSE exit
           pnl == x.price - entry_price * PctScale
       IN  /\ exit' = x
           /\ sim_result' =
                [kind |-> "trade",
                 entry_date |-> entry_date,
                 exit_date |-> x.date,
                 entry_price |-> entry_price,
                 exit_price |-> x.price,
                 pnl |-> pnl,
                 pnl_percent |-> [num |-> pnl, den |-> entry_price],
                 exit_reason |-> x.reason,
                 take_profit_price |-> take_profit_price,
                 stop_loss_price |-> stop_loss_price]
    /\ sim_pc' = "done"
    /\ UNCHANGED <<dbVars, btVars, riskVars, risk_call, liveVars, selVars, stat_call, anaVars,
                   component, df, req_entry_date, entry_date, take_profit_pct,
                   stop_loss_pct, hold_days, entry_price, take_profit_price,
                   stop_loss_price, future_dates, day_i>>

SimNext ==
    \/ SimNoData
    \/ SimEntryExact
    \/ SimEntryNearest
    \/ SimNoEntry
    \/ SimBegin
    \/ SimNoFuture
    \/ SimTakeProfit
    \/ SimStopLoss
    \/ SimNextDay
    \/ SimLoopEnd
    \/ SimReturn

SimSpec == SimInit /\ [][SimNext]_vars

----------------------------------------------------------------------------
(* RiskManager (src/risk_manager.py)                                       *)
(*                                                                         *)
(* Balances are whole currency units.  Prices are in cents, avg_drawdown   *)
(* and avg_gain in thousandths, so that 1.1 * avg_drawdown and             *)
(* 0.90 * avg_gain are whole ten-thousandths.                              *)

MaxDailyLossPercent == 5
MaxDrawdownPercent == 10

(* one hundredth of a percent: the unit of stop_loss_percent, adjusted_gain *)
BasisScale == 10000

Balances == {0, 9000, 9400, 9500, 9600, 10000, 10500}
EntryPrices == {50, 1001, 2537, 10000}
AvgDrawdowns == {-250, -182, -181, -100, -73, -72, -50, -30, 0, 20}
AvgGains == {0, 15, 32, 100, 333}

Maximum(a, b) == IF a >= b THEN a ELSE b

(* faulty variant: the mark follows the balance down *)
HighWaterMarkReset(prev, balance) == Some(balance)

(* risk_manager.py:27-31 *)
NewHighWaterMark(prev, balance) ==
    IF prev.is_none THEN Some(balance)
    ELSE Some(Maximum(prev.v, balance))

(* faulty variant: the limit itself is still allowed (> for >=) *)
LimitHitStrict(amount, base, limit) == amount * 100 > limit * base

(* (amount / base) * 100 >= limit, for base > 0 *)
LimitHit(amount, base, limit) == amount * 100 >= limit * base

(* risk_manager.py:34-53; the percentage is returned as a fraction *)
CheckDailyLossLimit(start, current_balance) ==
    IF start.is_none
    THEN [kind |-> "return", ok |-> TRUE, pct |-> [num |-> 0, den |-> 1]]
    ELSE IF start.v = 0
    THEN [kind |-> "ZeroDivisionError"]
    ELSE LET loss == start.v - current_balance
         IN  [kind |-> "return",
              ok |-> ~LimitHit(loss, start.v, MaxDailyLossPercent),
              pct |-> [num |-> loss * 100, den |-> start.v]]

(* risk_manager.py:55-74 *)
CheckMaxDrawdown(mark, current_balance) ==
    IF mark.is_none
    THEN [kind |-> "return", ok |-> TRUE, pct |-> [num |-> 0, den |-> 1]]
    ELSE IF mark.v = 0
    THEN [kind |-> "ZeroDivisionError"]
    ELSE LET drawdown == mark.v - current_balance
         IN  [kind |-> "return",
              ok |-> ~LimitHit(drawdown, mark.v, MaxDrawdownPercent),
              pct |-> [num |-> drawdown * 100, den |-> mark.v]]

(* risk_manager.py:76-91 *)
CanTrade(start, mark, current_balance) ==
    LET daily == CheckDailyLossLimit(start, current_balance)
        dd == CheckMaxDrawdown(mark, current_balance)
    IN  IF daily.kind # "return" THEN daily
        ELSE IF ~daily.ok
        THEN [kind |-> "return", ok |-> FALSE,
              reason |-> "Daily loss limit exceeded"]
        ELSE IF dd.kind # "return" THEN dd
        ELSE IF ~dd.ok
        THEN [kind |-> "return", ok |-> FALSE,
              reason |-> "Max drawdown limit exceeded"]
        ELSE [kind |-> "return", ok |-> TRUE,
              reason |-> "All risk checks passed"]

(* round(x, 2) of a price of num/den cents: the nearest whole number of    *)
(* cents.  When num/den lies exactly halfway the float product is not the  *)
(* exact value, and either neighbour can come out.                         *)
Round2(num, den) ==
    LET q == num \div den
        r == num % den
    IN  IF 2 * r < den THEN {q}
        ELSE IF 2 * r > den THEN {q + 1}
        ELSE {q, q + 1}

(* faulty variant: the multiplier of the stale comment at risk_manager.py:149 *)
StopLossPercent150(avg_drawdown) ==
    LET raw == avg_drawdown * 15
    IN  IF raw > -800 THEN -800
        ELSE IF raw < -2000 THEN -2000
        ELSE raw

(* risk_manager.py:150-160: 1.1 * avg_drawdown, clamped; in 1/BasisScale *)
StopLossPercent(avg_drawdown) ==
    LET raw == avg_drawdown * 11
    IN  IF raw > -800 THEN -800
        ELSE IF raw < -2000 THEN -2000
        ELSE raw

(* risk_manager.py:162-169: the prices (cents) the call can return *)
CalculateStopLoss(price, avg_drawdown) ==
    Round2(price * (BasisScale + StopLossPercent(avg_drawdown)), BasisScale)

(* faulty variant: the whole historical gain is the target *)
AdjustedGainFull(avg_gain) == avg_gain * 10

(* risk_manager.py:177: adjusted_gain = avg_gain * 0.90, in 1/BasisScale *)
AdjustedGain(avg_gain) == avg_gain * 9

(* risk_manager.py:178-185 *)
CalculateTakeProfit(price, avg_gain) ==
    Round2(price * (BasisScale + AdjustedGain(avg_gain)), BasisScale)

(* calculate_position_size (risk_manager.py:93-124).  Balances, buying     *)
(* power and the share price are whole dollars, capital is in cents, a     *)
(* quantity is in millionths of a share (MicroShare).                      *)
SizingBalances == {0, 500, 10000}
BuyingPowers == {0, 300, 1000, 10000}
StockPrices == {5, 100, 300, 450}
PositionPercents == {60, 85}

MicroShare == 1000000

Minimum(a, b) == IF a <= b THEN a ELSE b

(* risk_manager.py:100: account_balance * (max_position_size_percent/100) *)
MaxCapital(balance, pct) == pct * balance

(* faulty variant: the 98% buffer applied to the position cap as well *)
AvailableCapitalBuffered(balance, buying_power, pct) ==
    Minimum(98 * buying_power, (98 * MaxCapital(balance, pct)) \div 100)

(* risk_manager.py:101: min(buying_power * 0.98, max_capital), in cents *)
AvailableCapital(balance, buying_power, pct) ==
    Minimum(98 * buying_power, MaxCapital(balance, pct))

(* round(x, 6) of num/den millionths: the nearest whole number of          *)
(* millionths (risk_manager.py:112)                                        *)
Round6(num, den) ==
    LET q == num \div den
        r == num % den
    IN  IF 2 * r < den THEN {q}
        ELSE IF 2 * r > den THEN {q + 1}
        ELSE {q, q + 1}

(* risk_manager.py:107-114: the quantities (millionths of a share) that    *)
(* available_capital / stock_price becomes                                  *)
Quantity(available_capital, stock_price) ==
    IF available_capital < 100 * stock_price
        THEN Round6(available_capital * 10000, stock_price)
        ELSE {(available_capital \div (100 * stock_price)) * MicroShare}

(* risk_manager.py:116: quantity * stock_price, as whole cents and         *)
(* ten-thousandths of a cent                                               *)
ActualCapital(quantity, stock_price) ==
    LET whole == quantity \div MicroShare
        part == (quantity % MicroShare) * stock_price
    IN  [cents |-> whole * 100 * stock_price + part \div 10000,
         frac |-> part % 10000]

(* risk_manager.py:93-124: the (quantity, actual_capital) pairs returned *)
CalculatePositionSize(balance, buying_power, stock_price, pct) ==
    LET available_capital == AvailableCapital(balance, buying_power, pct)
    IN  IF available_capital <= 0
            THEN {[quantity |-> 0, capital |-> [cents |-> 0, frac |-> 0]]}
            ELSE {[quantity |-> q, capital |-> ActualCapital(q, stock_price)] :
                      q \in Quantity(available_capital, stock_price)}

RiskInit ==
    /\ component = "risk"
    /\ RiskIdle
    /\ SimIdle
    /\ LiveIdle
    /\ SelIdle
    /\ StatIdle
    /\ DbIdle
    /\ BtIdle
    /\ AnaIdle

(* risk_manager.py:24-32 *)
RiskSetDailyStartBalance ==
    /\ component = "risk"
    /\ \E balance \in Balances :
          /\ daily_start_balance' = Some(balance)
          /\ max_drawdown_balance' = NewHighWaterMark(max_drawdown_balance, balance)
          /\ risk_call' = [op |-> "set_daily_start_balance", balance |-> balance]
    /\ UNCHANGED <<component, dbVars, btVars, stat_call, anaVars, selVars, simVars, liveVars>>

(* risk_manager.py:34-53 *)
RiskCheckDailyLossLimit ==
    /\ component = "risk"
    /\ \E balance \in Balances :
          risk_call' = [op |-> "check_daily_loss_limit", balance |-> balance,
                        out |-> CheckDailyLossLimit(daily_start_balance, balance)]
    /\ UNCHANGED <<component, dbVars, btVars, stat_call, anaVars, selVars, simVars, riskVars, liveVars>>

(* risk_manager.py:55-74 *)
RiskCheckMaxDrawdown ==
    /\ component = "risk"
    /\ \E balance \in Balances :
          risk_call' = [op |-> "check_max_drawdown", balance |-> balance,
                        out |-> CheckMaxDrawdown(max_drawdown_balance, balance)]
    /\ UNCHANGED <<component, dbVars, btVars, stat_call, anaVars, selVars, simVars, riskVars, liveVars>>

(* risk_manager.py:76-91 *)
RiskCanTrade ==
    /\ component = "risk"
    /\ \E balance \in Balances :
          risk_call' = [op |-> "can_trade", balance |-> balance,
                        out |-> CanTrade(daily_start_balance,
                                         max_drawdown_balance, balance)]
    /\ UNCHANGED <<component, dbVars, btVars, stat_call, anaVars, selVars, simVars, riskVars, liveVars>>

(* risk_manager.py:144-169 *)
RiskCalculateStopLoss ==
    /\ component = "risk"
    /\ \E price \in EntryPrices, dd \in AvgDrawdowns :
          \E stop \in CalculateStopLoss(price, dd) :
              risk_call' = [op |-> "calculate_stop_loss", entry_price |-> price,
                            avg_drawdown |-> dd, out |-> stop]
    /\ UNCHANGED <<component, dbVars, btVars, stat_call, anaVars, selVars, simVars, riskVars, liveVars>>

(* risk_manager.py:171-185 *)
RiskCalculateTakeProfit ==
    /\ component = "risk"
    /\ \E price \in EntryPrices, gain \in AvgGains :
          \E target \in CalculateTakeProfit(price, gain) :
              risk_call' = [op |-> "calculate_take_profit", entry_price |-> price,
                            avg_gain |-> gain, out |-> target]
    /\ UNCHANGED <<component, dbVars, btVars, stat_call, anaVars, selVars, simVars, riskVars, liveVars>>

(* risk_manager.py:93-124 *)
RiskCalculatePositionSize ==
    /\ component = "risk"
    /\ \E balance \in SizingBalances, bp \in BuyingPowers,
          price \in StockPrices, pct \in PositionPercents :
          \E size \in CalculatePositionSize(balance, bp, price, pct) :
              risk_call' = [op |-> "calculate_position_size",
                            account_balance |-> balance, buying_power |-> bp,
                            stock_price |-> price,
                            max_position_size_percent |-> pct, out |-> size]
    /\ UNCHANGED <<component, dbVars, btVars, stat_call, anaVars, selVars, simVars, riskVars, liveVars>>

RiskNext ==
    \/ RiskSetDailyStartBalance
    \/ RiskCheckDailyLossLimit
    \/ RiskCheckMaxDrawdown
    \/ RiskCanTrade
    \/ RiskCalculateStopLoss
    \/ RiskCalculateTakeProfit
    \/ RiskCalculatePositionSize

RiskSpec == RiskInit /\ [][RiskNext]_vars

----------------------------------------------------------------------------
(* The reaction statistics of analyze_stock_earnings (src/analyzer.py) and *)
(* analyze_stock_history (src/backtest_full.py).  Gains and drawdowns are  *)
(* in 1/BasisScale; a quotient is kept as a fraction num/den, den > 0.     *)

MaxSamples == 4

(* (perc_gain, perc_drawdown) of one sample; the window's lowest low is    *)
(* never above its highest high                                            *)
GainDrawdownPairs ==
    {<<500, -300>>, <<-200, -600>>, <<300, 50>>, <<150, -100>>, <<100, 0>>,
     <<50, -50>>}

(* analyzer.py:291  the average drawdown when no drawdown is negative *)
DefaultAvgDrawdown == -500

(* backtest_full.py:156  the fewest samples of a backtest analysis *)
MinBacktestSamples == 3

Frac(n, d) == [num |-> n, den |-> d]

RECURSIVE SeqSum(_)
SeqSum(s) == IF s = << >> THEN 0 ELSE Head(s) + SeqSum(Tail(s))

(* faulty variant: every gain above zero counts *)
IsPositiveGainAboveZero(g) == g > 0

(* analyzer.py:284, backtest_full.py:161  g > 0.01 *)
IsPositiveGain(g) == g > 100

(* analyzer.py:285, backtest_full.py:162  d < 0 *)
IsNegativeDrawdown(d) == d < 0

(* analyzer.py:279-281: no sample; backtest_full.py:156-158: fewer than 3 *)
TooFewSamples(path, gains) ==
    IF path = "live" THEN gains = << >>
    ELSE gains = << >> \/ Len(gains) < MinBacktestSamples

(* analyzer.py:283-295, backtest_full.py:160-169 *)
ReactionStatistics(path, gains, drawdowns) ==
    IF TooFewSamples(path, gains) THEN NoneResult
    ELSE LET positive_gains == SelectSeq(gains, IsPositiveGain)
             negative_drawdowns == SelectSeq(drawdowns, IsNegativeDrawdown)
             frequency == IF gains # << >>
                             THEN Frac(Len(positive_gains), Len(gains))
                             ELSE Frac(0, 1)
             avg_gain == IF positive_gains # << >>
                            THEN Frac(SeqSum(positive_gains),
                                      Len(positive_gains))
                            ELSE Frac(0, 1)
             avg_drawdown == IF negative_drawdowns # << >>
                                THEN Frac(SeqSum(negative_drawdowns),
                                          Len(negative_drawdowns))
                                ELSE Frac(DefaultAvgDrawdown, 1)
         IN  [kind |-> "statistics",
              frequency |-> frequency,
              avg_gain |-> avg_gain,
              avg_drawdown |-> avg_drawdown,
              price_score |-> Frac(frequency.num * avg_gain.num,
                                   frequency.den * avg_gain.den)]

StatInit ==
    /\ component = "statistics"
    /\ StatIdle
    /\ DbIdle
    /\ BtIdle
    /\ SimIdle
    /\ RiskIdle
    /\ LiveIdle
    /\ SelIdle
    /\ AnaIdle

(* analyzer.py:279-295, backtest_full.py:156-169: the statistics of one    *)
(* list of samples                                                         *)
StatCalculate ==
    /\ component = "statistics"
    /\ stat_call = NoCall
    /\ \E path \in {"live", "backtest"}, n \in 0..MaxSamples :
          \E s \in [1..n -> GainDrawdownPairs] :
              LET gains == [k \in 1..n |-> s[k][1]]
                  drawdowns == [k \in 1..n |-> s[k][2]]
              IN  stat_call' =
                      [op |-> "statistics", path |-> path,
                       all_gains |-> gains, all_drawdowns |-> drawdowns,
                       out |-> ReactionStatistics(path, gains, drawdowns)]
    /\ UNCHANGED <<component, dbVars, btVars, simVars, riskVars, risk_call, liveVars,
                   selVars, anaVars>>

StatNext == StatCalculate

StatSpec == StatInit /\ [][StatNext]_vars

----------------------------------------------------------------------------
(* The reaction sampling of analyze_stock_earnings (src/analyzer.py, the   *)
(* live path) and analyze_stock_history (src/backtest_full.py, the         *)
(* backtest path).  Dates are calendar days 1, 2, ...; a bar is a day's    *)
(* close, high and low; gains and drawdowns are in 1/BasisScale.           *)

MaxAnaDate == 12

(* the most non-trading days inside the history *)
MaxClosedDays == 2

(* analyzer.py:238  the fewest earnings dates of a live analysis *)
MinLiveEvents == 4

(* backtest_full.py:87  the fewest estimated earnings dates *)
MinEstimates == 3

(* backtest_full.py:78, 85  the 90 days between estimated earnings dates, *)
(* scaled to the calendar of the model                                     *)
EstimateSpacing == 4

(* analyzer.py:262, backtest_full.py:139  the bars of a reaction window *)
WindowBars == 5

(* backtest_full.py:140  the fewest bars of a backtest window *)
MinWindowBars == 3

AnaDates == 1..MaxAnaDate

(* the prices of a trading day: every close divides BasisScale times the   *)
(* price differences, so that each gain is a whole number of 1/BasisScale  *)
PriceTable ==
    << [close |-> 100, high |-> 102, low |-> 99],
       [close |-> 100, high |-> 101, low |-> 100],
       [close |-> 125, high |-> 128, low |-> 124],
       [close |-> 100, high |-> 106, low |-> 95] >>

BarOn(d) ==
    LET p == PriceTable[((d - 1) % Len(PriceTable)) + 1]
    IN  [date |-> d, close |-> p.close, high |-> p.high, low |-> p.low]

(* the bars of the days of D, in date order *)
RECURSIVE BarsOf(_)
BarsOf(D) ==
    IF D = {} THEN << >>
    ELSE LET last == CHOOSE d \in D : \A x \in D : x <= d
         IN  Append(BarsOf(D \ {last}), BarOn(last))

(* the histories a provider can give: nothing, or every day but at most    *)
(* MaxClosedDays non-trading days                                          *)
Histories ==
    {<< >>} \cup
    {BarsOf(AnaDates \ closed) :
        closed \in {C \in SUBSET AnaDates : Cardinality(C) <= MaxClosedDays}}

(* the earnings dates yfinance can give, most recent first: none, too few, *)
(* quarterly dates, and a list whose first date is still to come           *)
LiveEventLists ==
    { << >>, <<9, 6, 3>>, <<10, 7, 4, 1>>, <<11, 8, 5, 2>>,
      <<13, 10, 7, 4>> }

(* backtest_full.py:76-85: a date every EstimateSpacing days back from the *)
(* upcoming one, down to the cutoff                                        *)
RECURSIVE EstimatedDates(_, _)
EstimatedDates(current_est, cutoff) ==
    IF current_est >= cutoff
        THEN <<current_est>> \o EstimatedDates(current_est - EstimateSpacing,
                                               cutoff)
        ELSE << >>

(* backtest_full.py:78-81 with the day after the history as the upcoming   *)
(* earnings date                                                           *)
PastEarningsDates ==
    LET upcoming == MaxAnaDate + 1
    IN  EstimatedDates(upcoming - EstimateSpacing,
                       upcoming - 3 * EstimateSpacing)

(* Index.get_loc(date, method='ffill'): the place of the last bar on or    *)
(* before the date; 0 stands for the KeyError when there is none           *)
PadLoc(h, d) ==
    LET at == {k \in 1..Len(h) : h[k].date <= d}
    IN  IF at = {} THEN 0 ELSE CHOOSE k \in at : \A x \in at : x <= k

(* backtest_full.py:129-134: the place of the bar of the date, else of the *)
(* first bar after it; 0 when there is none                                *)
NearestLoc(h, d) ==
    LET at == {k \in 1..Len(h) : h[k].date >= d}
    IN  IF at = {} THEN 0 ELSE CHOOSE k \in at : \A x \in at : k <= x

(* analyzer.py:262  hist.iloc[t_idx + 1 : t_idx + 6];                      *)
(* backtest_full.py:139  the dates after the anchor, [:5]                  *)
ReactionWindow(h, t_idx) ==
    SubSeq(h, t_idx + 1, Minimum(t_idx + WindowBars, Len(h)))

RECURSIVE MaxHigh(_)
MaxHigh(w) ==
    IF Len(w) = 1 THEN w[1].high ELSE Maximum(w[1].high, MaxHigh(Tail(w)))

RECURSIVE MinLow(_)
MinLow(w) ==
    IF Len(w) = 1 THEN w[1].low ELSE Minimum(w[1].low, MinLow(Tail(w)))

Skipped == [taken |-> FALSE]

(* analyzer.py:259-273, backtest_full.py:136-150: the sample of an event   *)
(* anchored on bar t_idx                                                   *)
SampleAt(h, event, t_idx) ==
    LET t_close == h[t_idx].close
        window == ReactionWindow(h, t_idx)
    IN  [taken |-> TRUE, event |-> event, anchor |-> h[t_idx].date,
         t_close |-> t_close,
         window |-> [k \in 1..Len(window) |-> window[k].date],
         perc_gain |-> ((MaxHigh(window) - t_close) * BasisScale)
                           \div t_close,
         perc_drawdown |-> ((MinLow(window) - t_close) * BasisScale)
                               \div t_close]

(* analyzer.py:256-277: the exception of get_loc and an empty window skip  *)
(* the event                                                               *)
LiveSample(h, event, method) ==
    IF method = "TypeError" THEN Skipped
    ELSE LET t_idx == PadLoc(h, event)
         IN  IF t_idx = 0 THEN Skipped
             ELSE IF ReactionWindow(h, t_idx) = << >> THEN Skipped
             ELSE SampleAt(h, event, t_idx)

(* backtest_full.py:127-154 *)
BacktestSample(h, event) ==
    LET t_idx == NearestLoc(h, event)
    IN  IF t_idx = 0 THEN Skipped
        ELSE IF Len(ReactionWindow(h, t_idx)) < MinWindowBars THEN Skipped
        ELSE SampleAt(h, event, t_idx)

AnaInit ==
    /\ component = "analysis"
    /\ ana_path \in {"live", "backtest"}
    /\ get_loc_method \in {"pad", "TypeError"}
    /\ ana_path = "backtest" => get_loc_method = "pad"
    /\ hist \in Histories
    /\ relevant_dates \in IF ana_path = "live" THEN LiveEventLists
                          ELSE {PastEarningsDates}
    /\ ana_pc = "start"
    /\ ana_i = 0
    /\ all_gains = << >>
    /\ all_drawdowns = << >>
    /\ samples = << >>
    /\ ana_result = NoneResult
    /\ SimIdle
    /\ RiskIdle
    /\ LiveIdle
    /\ SelIdle
    /\ StatIdle
    /\ DbIdle
    /\ BtIdle

(* analyzer.py:230-249: no earnings dates, fewer than 4, or no history;    *)
(* backtest_full.py:87-89, 105-107: fewer than 3 estimates, or no bars     *)
AnaNoData ==
    /\ component = "analysis" /\ ana_pc = "start"
    /\ \/ Len(relevant_dates) < (IF ana_path = "live" THEN MinLiveEvents
                                 ELSE MinEstimates)
       \/ hist = << >>
    /\ ana_result' = NoneResult
    /\ ana_pc' = "done"
    /\ UNCHANGED <<component, dbVars, btVars, simVars, riskVars, risk_call, liveVars,
                   selVars, stat_call, ana_path, get_loc_method, hist,
                   relevant_dates, ana_i, all_gains, all_drawdowns, samples>>

(* analyzer.py:251-255, backtest_full.py:122-126: the loop starts *)
AnaBegin ==
    /\ component = "analysis" /\ ana_pc = "start"
    /\ Len(relevant_dates) >= (IF ana_path = "live" THEN MinLiveEvents
                               ELSE MinEstimates)
    /\ hist # << >>
    /\ all_gains' = << >>
    /\ all_drawdowns' = << >>
    /\ ana_i' = 1
    /\ ana_pc' = "loop"
    /\ UNCHANGED <<component, dbVars, btVars, simVars, riskVars, risk_call, liveVars,
                   selVars, stat_call, ana_path, get_loc_method, hist,
                   relevant_dates, samples, ana_result>>

(* the sample of the event the loop handles *)
CurrentSample ==
    IF ana_path = "live"
        THEN LiveSample(hist, relevant_dates[ana_i], get_loc_method)
        ELSE BacktestSample(hist, relevant_dates[ana_i])

(* analyzer.py:255-273, backtest_full.py:126-150: a sample is taken *)
AnaSampleTaken ==
    /\ component = "analysis" /\ ana_pc = "loop"
    /\ ana_i <= Len(relevant_dates)
    /\ CurrentSample.taken
    /\ all_gains' = Append(all_gains, CurrentSample.perc_gain)
    /\ all_drawdowns' = Append(all_drawdowns, CurrentSample.perc_drawdown)
    /\ samples' = Append(samples, CurrentSample)
    /\ ana_i' = ana_i + 1
    /\ UNCHANGED <<component, dbVars, btVars, simVars, riskVars, risk_call, liveVars,
                   selVars, stat_call, ana_path, get_loc_method, hist,
                   relevant_dates, ana_pc, ana_result>>

(* analyzer.py:263-264, 275-277, backtest_full.py:132-133, 140-141,        *)
(* 152-154: the event is skipped                                           *)
AnaSampleSkipped ==
    /\ component = "analysis" /\ ana_pc = "loop"
    /\ ana_i <= Len(relevant_dates)
    /\ ~ CurrentSample.taken
    /\ ana_i' = ana_i + 1
    /\ UNCHANGED <<component, dbVars, btVars, simVars, riskVars, risk_call, liveVars,
                   selVars, stat_call, ana_path, get_loc_method, hist,
                   relevant_dates, ana_pc, all_gains, all_drawdowns, samples,
                   ana_result>>

(* analyzer.py:279-295, backtest_full.py:156-169: None, or the statistics  *)
(* of the samples                                                          *)
AnaStatistics ==
    /\ component = "analysis" /\ ana_pc = "loop"
    /\ ana_i > Len(relevant_dates)
    /\ ana_result' = ReactionStatistics(ana_path, all_gains, all_drawdowns)
    /\ ana_pc' = "done"
    /\ UNCHANGED <<component, dbVars, btVars, simVars, riskVars, risk_call, liveVars,
                   selVars, stat_call, ana_path, get_loc_method, hist,
                   relevant_dates, ana_i, all_gains, all_drawdowns, samples>>

AnaNext ==
    \/ AnaNoData
    \/ AnaBegin
    \/ AnaSampleTaken
    \/ AnaSampleSkipped
    \/ AnaStatistics

AnaSpec == AnaInit /\ [][AnaNext]_vars

----------------------------------------------------------------------------
(* Best-candidate selection: StockAnalyzer.find_best_stock                 *)
(* (src/analyzer.py) and the selection of FullBacktester.simulate_day      *)
(* (src/backtest_full.py).  frequency and the fundamental metrics are in   *)
(* percent, avg_gain and avg_drawdown in 1/BasisScale, avg_eps_surprise in *)
(* percentage points, price_score in millionths, fundamental_score in      *)
(* 1/BasisScale and the final score in ten-millionths.                     *)

MaxTickers == 4

(* config.py:175 max_stocks_to_analyze, scaled down to the batch *)
MaxStocksToAnalyze == 3

(* metrics of get_fundamental_metrics before any provider answer *)
NeutralMetrics ==
    [eps_beat_rate |-> 50, avg_eps_surprise_pct |-> 0,
     revenue_growth_trend |-> 50, analyst_score |-> 50]

(* the fundamentals provider for one ticker: whether each of its three     *)
(* calls answers (company_earnings, company_basic_financials,              *)
(* recommendation_trends), and the metrics its answers give                *)
ProviderFails ==
    [earnings_ok |-> FALSE, financials_ok |-> FALSE,
     recommendations_ok |-> FALSE, metrics |-> NeutralMetrics]
ProviderWithoutFinancials(eps, surprise, analyst) ==
    [earnings_ok |-> TRUE, financials_ok |-> FALSE,
     recommendations_ok |-> TRUE,
     metrics |-> [eps_beat_rate |-> eps, avg_eps_surprise_pct |-> surprise,
                  revenue_growth_trend |-> 100, analyst_score |-> analyst]]
Provider(eps, surprise, revenue, analyst) ==
    [earnings_ok |-> TRUE, financials_ok |-> TRUE,
     recommendations_ok |-> TRUE,
     metrics |-> [eps_beat_rate |-> eps, avg_eps_surprise_pct |-> surprise,
                  revenue_growth_trend |-> revenue, analyst_score |-> analyst]]

(* what the data providers hold for one ticker: the price history either   *)
(* raises, is missing, or gives the reaction statistics                    *)
Statistics(frequency, avg_gain, avg_drawdown, provider) ==
    [kind |-> "ok", frequency |-> frequency, avg_gain |-> avg_gain,
     avg_drawdown |-> avg_drawdown, provider |-> provider]

TickerInputs ==
    { [kind |-> "raises"],
      [kind |-> "no_data"],
      Statistics(75, 400, -300, Provider(20, 10, 50, 75)),
      Statistics(50, 300, -200, Provider(30, 0, 50, 50)),
      Statistics(50, 300, -200, ProviderFails),
      Statistics(50, 300, -200, ProviderWithoutFinancials(75, 4, 75)),
      Statistics(0, 0, -500, Provider(100, 20, 100, 100)),
      Statistics(25, 1000, -400, Provider(50, 0, 50, 50)) }

(* AnalysisConfig: min_score_threshold (ten-millionths) and                *)
(* min_avg_gain_percent / 100 (1/BasisScale); the first is config.py's     *)
(* default                                                                 *)
SelConfigs ==
    { [min_score_threshold |-> 0, min_avg_gain |-> 100],
      [min_score_threshold |-> 1600000, min_avg_gain |-> 350] }

(* analyzer.py:82-210: without a client the neutral metrics; otherwise     *)
(* each call that answers replaces its metrics and each call that fails    *)
(* leaves the neutral ones                                                 *)
GetFundamentalMetrics(has_client, provider) ==
    IF ~ has_client THEN NeutralMetrics
    ELSE [eps_beat_rate |->
              IF provider.earnings_ok THEN provider.metrics.eps_beat_rate
              ELSE NeutralMetrics.eps_beat_rate,
          avg_eps_surprise_pct |->
              IF provider.earnings_ok
                  THEN provider.metrics.avg_eps_surprise_pct
                  ELSE NeutralMetrics.avg_eps_surprise_pct,
          revenue_growth_trend |->
              IF provider.financials_ok
                  THEN provider.metrics.revenue_growth_trend
                  ELSE NeutralMetrics.revenue_growth_trend,
          analyst_score |->
              IF provider.recommendations_ok
                  THEN provider.metrics.analyst_score
                  ELSE NeutralMetrics.analyst_score]

(* faulty variant: the surprise is scaled but not clamped *)
NormalizedEpsSurpriseUnclamped(surprise) == (5 * surprise) \div 2 + 50

(* analyzer.py:302  min(max(surprise / 40.0 + 0.5, 0.0), 1.0), in percent *)
NormalizedEpsSurprise(surprise) ==
    LET raw == (5 * surprise) \div 2 + 50
    IN  IF raw < 0 THEN 0 ELSE IF raw > 100 THEN 100 ELSE raw

(* analyzer.py:304-309 *)
FundamentalScore(m) ==
    m.eps_beat_rate * 50
    + NormalizedEpsSurprise(m.avg_eps_surprise_pct) * 30
    + m.analyst_score * 15
    + m.revenue_growth_trend * 5

(* analyzer.py:295 *)
PriceScore(frequency, avg_gain) == frequency * avg_gain

(* analyzer.py:312  price_score * 0.7 + fundamental_score * 0.3 *)
FinalScore(price_score, fundamental_score) ==
    7 * price_score + 300 * fundamental_score

(* analyzer.py:212-335: None when the history raises or is missing *)
AnalyzeStockEarnings(ticker, t) ==
    IF t.kind # "ok" THEN NoneResult
    ELSE LET m == GetFundamentalMetrics(TRUE, t.provider)
             price_score == PriceScore(t.frequency, t.avg_gain)
             fundamental_score == FundamentalScore(m)
         IN  [kind |-> "analysis", ticker |-> ticker,
              score |-> FinalScore(price_score, fundamental_score),
              price_score |-> price_score,
              fundamental_score |-> fundamental_score,
              avg_gain |-> t.avg_gain, avg_drawdown |-> t.avg_drawdown,
              frequency |-> t.frequency,
              eps_beat_rate |-> m.eps_beat_rate,
              avg_eps_surprise |-> m.avg_eps_surprise_pct,
              analyst_rating |-> m.analyst_score,
              revenue_growth |-> m.revenue_growth_trend]

(* backtest_full.py:61-219: the analyzer is built without a Finnhub client *)
(* (backtest_full.py:59); a beat rate below 30% gives None                 *)
AnalyzeStockHistory(ticker, t) ==
    IF t.kind # "ok" THEN NoneResult
    ELSE LET m == GetFundamentalMetrics(FALSE, t.provider)
             price_score == PriceScore(t.frequency, t.avg_gain)
             fundamental_score == FundamentalScore(m)
         IN  IF m.eps_beat_rate < 30 THEN NoneResult
             ELSE [kind |-> "analysis", ticker |-> ticker,
                   score |-> FinalScore(price_score, fundamental_score),
                   price_score |-> price_score,
                   fundamental_score |-> fundamental_score,
                   avg_gain |-> t.avg_gain, avg_drawdown |-> t.avg_drawdown,
                   frequency |-> t.frequency,
                   eps_beat_rate |-> m.eps_beat_rate,
                   avg_eps_surprise |-> m.avg_eps_surprise_pct,
                   analyst_rating |-> m.analyst_score]

(* faulty variant: a failing ticker discards what was collected before it *)
ResultsAfterReset(collected, analysis) ==
    IF analysis = NoneResult THEN << >> ELSE Append(collected, analysis)

(* analyzer.py:365-367, backtest_full.py:333-335: "if analysis: append" *)
ResultsAfter(collected, analysis) ==
    IF analysis = NoneResult THEN collected ELSE Append(collected, analysis)

(* faulty variant: a beat rate of exactly 30% is dropped *)
PassesQualityStrict(result) == result.eps_beat_rate > 30

(* analyzer.py:378 *)
PassesQuality(result) == result.eps_beat_rate >= 30

(* faulty variant: the last of the candidates with the highest score *)
LastMaxIndex(s) ==
    CHOOSE k \in 1..Len(s) :
        /\ \A j \in 1..Len(s) : s[j].score <= s[k].score
        /\ \A j \in (k + 1)..Len(s) : s[j].score < s[k].score

(* the first of the candidates with the highest score: what max() returns  *)
(* (backtest_full.py:342) and what a stable descending sort puts first     *)
(* (analyzer.py:396)                                                       *)
FirstMaxIndex(s) ==
    CHOOSE k \in 1..Len(s) :
        /\ \A j \in 1..Len(s) : s[j].score <= s[k].score
        /\ \A j \in 1..(k - 1) : s[j].score < s[k].score

RemoveAt(s, k) == SubSeq(s, 1, k - 1) \o SubSeq(s, k + 1, Len(s))

(* analyzer.py:396  list.sort(key=score, reverse=True): stable *)
RECURSIVE SortByScoreDescending(_)
SortByScoreDescending(s) ==
    IF s = << >> THEN << >>
    ELSE LET k == FirstMaxIndex(s)
         IN  <<s[k]>> \o SortByScoreDescending(RemoveAt(s, k))

(* backtest_full.py:342  max(analyzed_stocks, key=score) *)
MaxByScore(s) == s[FirstMaxIndex(s)]

(* faulty variant: only the score threshold is applied *)
PassesThresholdsScoreOnly(candidate, cfg) ==
    ~ (candidate.score < cfg.min_score_threshold)

(* analyzer.py:406-418: neither threshold check returns None *)
PassesThresholds(candidate, cfg) ==
    /\ ~ (candidate.score < cfg.min_score_threshold)
    /\ ~ (candidate.avg_gain < cfg.min_avg_gain)

(* backtest_full.py:345  frequency < 0.4 or avg_gain < 0.01 *)
MeetsCriteria(candidate) ==
    ~ (candidate.frequency < 40 \/ candidate.avg_gain < 100)

SelInit ==
    /\ component = "select"
    /\ sel_path \in {"live", "backtest"}
    /\ sel_config \in SelConfigs
    /\ tradable \in UNION {[1..n -> TickerInputs] : n \in 0..MaxTickers}
    /\ sel_pc = "start"
    /\ sel_i = 0
    /\ results = << >>
    /\ quality_results = << >>
    /\ best = NoneResult
    /\ sel_result = NoneResult
    /\ SimIdle
    /\ RiskIdle
    /\ LiveIdle
    /\ StatIdle
    /\ DbIdle
    /\ BtIdle
    /\ AnaIdle

SelReturnNone ==
    /\ sel_result' = NoneResult
    /\ sel_pc' = "done"

(* analyzer.py:343-352, backtest_full.py:319-323: no ticker to analyse *)
SelNoTickers ==
    /\ component = "select" /\ sel_pc = "start"
    /\ tradable = << >>
    /\ SelReturnNone
    /\ UNCHANGED <<component, dbVars, btVars, stat_call, anaVars, simVars, riskVars, risk_call, liveVars,
                   sel_path, sel_config, tradable, sel_i, results,
                   quality_results, best>>

(* analyzer.py:355-363, backtest_full.py:328-332: at most                  *)
(* max_stocks_to_analyze tickers are analysed                              *)
SelLimit ==
    /\ component = "select" /\ sel_pc = "start"
    /\ tradable # << >>
    /\ tradable' = IF Len(tradable) > MaxStocksToAnalyze
                      THEN SubSeq(tradable, 1, MaxStocksToAnalyze)
                      ELSE tradable
    /\ results' = << >>
    /\ sel_i' = 1
    /\ sel_pc' = "analyze"
    /\ UNCHANGED <<component, dbVars, btVars, stat_call, anaVars, simVars, riskVars, risk_call, liveVars,
                   sel_path, sel_config, quality_results, best, sel_result>>

(* analyzer.py:364-368, backtest_full.py:332-335: one turn of the loop *)
SelAnalyzeTicker ==
    /\ component = "select" /\ sel_pc = "analyze"
    /\ sel_i <= Len(tradable)
    /\ LET analysis == IF sel_path = "live"
                          THEN AnalyzeStockEarnings(sel_i, tradable[sel_i])
                          ELSE AnalyzeStockHistory(sel_i, tradable[sel_i])
       IN  results' = ResultsAfter(results, analysis)
    /\ sel_i' = sel_i + 1
    /\ UNCHANGED <<component, dbVars, btVars, stat_call, anaVars, simVars, riskVars, risk_call, liveVars,
                   sel_path, sel_config, tradable, sel_pc, quality_results,
                   best, sel_result>>

(* analyzer.py:370-372, backtest_full.py:337-339 *)
SelNoResults ==
    /\ component = "select" /\ sel_pc = "analyze"
    /\ sel_i > Len(tradable)
    /\ results = << >>
    /\ SelReturnNone
    /\ UNCHANGED <<component, dbVars, btVars, stat_call, anaVars, simVars, riskVars, risk_call, liveVars,
                   sel_path, sel_config, tradable, sel_i, results,
                   quality_results, best>>

(* analyzer.py:374-379, 390-397: filter, sort, take the first *)
SelRankLive ==
    /\ component = "select" /\ sel_pc = "analyze" /\ sel_path = "live"
    /\ sel_i > Len(tradable)
    /\ results # << >>
    /\ LET passed == SelectSeq(results, PassesQuality)
       IN  /\ passed # << >>
           /\ quality_results' = SortByScoreDescending(passed)
           /\ best' = quality_results'[1]
    /\ sel_pc' = "gate"
    /\ UNCHANGED <<component, dbVars, btVars, stat_call, anaVars, simVars, riskVars, risk_call, liveVars,
                   sel_path, sel_config, tradable, sel_i, results, sel_result>>

(* analyzer.py:374-388: nothing passes the quality filter *)
SelNoQuality ==
    /\ component = "select" /\ sel_pc = "analyze" /\ sel_path = "live"
    /\ sel_i > Len(tradable)
    /\ results # << >>
    /\ SelectSeq(results, PassesQuality) = << >>
    /\ SelReturnNone
    /\ UNCHANGED <<component, dbVars, btVars, stat_call, anaVars, simVars, riskVars, risk_call, liveVars,
                   sel_path, sel_config, tradable, sel_i, results,
                   quality_results, best>>

(* backtest_full.py:341-342 *)
SelRankBacktest ==
    /\ component = "select" /\ sel_pc = "analyze" /\ sel_path = "backtest"
    /\ sel_i > Len(tradable)
    /\ results # << >>
    /\ best' = MaxByScore(results)
    /\ sel_pc' = "gate"
    /\ UNCHANGED <<component, dbVars, btVars, stat_call, anaVars, simVars, riskVars, risk_call, liveVars,
                   sel_path, sel_config, tradable, sel_i, results,
                   quality_results, sel_result>>

(* analyzer.py:405-418, backtest_full.py:344-347: the best one fails a     *)
(* threshold                                                               *)
SelGateRejects ==
    /\ component = "select" /\ sel_pc = "gate"
    /\ IF sel_path = "live" THEN ~ PassesThresholds(best, sel_config)
                            ELSE ~ MeetsCriteria(best)
    /\ SelReturnNone
    /\ UNCHANGED <<component, dbVars, btVars, stat_call, anaVars, simVars, riskVars, risk_call, liveVars,
                   sel_path, sel_config, tradable, sel_i, results,
                   quality_results, best>>

(* analyzer.py:420, backtest_full.py:349-363: the best one is the result *)
SelGateAccepts ==
    /\ component = "select" /\ sel_pc = "gate"
    /\ IF sel_path = "live" THEN PassesThresholds(best, sel_config)
                            ELSE MeetsCriteria(best)
    /\ sel_result' = best
    /\ sel_pc' = "done"
    /\ UNCHANGED <<component, dbVars, btVars, stat_call, anaVars, simVars, riskVars, risk_call, liveVars,
                   sel_path, sel_config, tradable, sel_i, results,
                   quality_results, best>>

SelNext ==
    \/ SelNoTickers
    \/ SelLimit
    \/ SelAnalyzeTicker
    \/ SelNoResults
    \/ SelRankLive
    \/ SelNoQuality
    \/ SelRankBacktest
    \/ SelGateRejects
    \/ SelGateAccepts

SelSpec == SelInit /\ [][SelNext]_vars

----------------------------------------------------------------------------
(* The fundamental score as a computation of its own: one call of the      *)
(* formula of analyzer.py:300-309 and backtest_full.py:185-193 on a        *)
(* snapshot of fundamentals                                                *)

(* eps_beat_rate, analyst_score and revenue_growth_trend, in percent *)
MetricLevels == {0, 25, 50, 100}

(* avg_eps_surprise_pct, in percentage points: inside, on and beyond the   *)
(* band of -20 .. +20; even, so that surprise / 40 is a whole percentage   *)
EpsSurprises == {-60, -22, -20, -18, -10, 0, 10, 18, 20, 22, 60}

FundInit ==
    /\ component = "fundamentals"
    /\ StatIdle
    /\ DbIdle
    /\ BtIdle
    /\ SimIdle
    /\ RiskIdle
    /\ LiveIdle
    /\ SelIdle
    /\ AnaIdle

(* analyzer.py:300-309, backtest_full.py:185-193 *)
FundScore ==
    /\ component = "fundamentals"
    /\ stat_call = NoCall
    /\ \E eps \in MetricLevels, surprise \in EpsSurprises,
          revenue \in MetricLevels, analyst \in MetricLevels :
          LET m == [eps_beat_rate |-> eps, avg_eps_surprise_pct |-> surprise,
                    revenue_growth_trend |-> revenue,
                    analyst_score |-> analyst]
          IN  stat_call' =
                  [op |-> "fundamental_score", fundamentals |-> m,
                   normalized_eps_surprise |->
                       NormalizedEpsSurprise(surprise),
                   out |-> FundamentalScore(m)]
    /\ UNCHANGED <<component, dbVars, btVars, simVars, riskVars, risk_call, liveVars,
                   selVars, anaVars>>

FundNext == FundScore

FundSpec == FundInit /\ [][FundNext]_vars

----------------------------------------------------------------------------
(* The backtests: FullBacktester.run_full_backtest, simulate_day and       *)
(* calculate_statistics (src/backtest_full.py), and                        *)
(* Backtester.backtest_strategy (src/backtester.py).  Dates are calendar   *)
(* days 1, 2, ...; capital and P&L are counted in 1/1024 of the initial    *)
(* capital of 10000.0, prices in whole currency units, frequency in        *)
(* percent, avg_gain, avg_drawdown and the simulation's percentages in     *)
(* 1/BasisScale; every ratio of the statistics is an exact fraction.       *)

(* the days of the range of run_full_backtest, and the most stocks in the  *)
(* list of backtest_strategy                                               *)
MaxBtDays == 3

(* backtest_full.py:38-39, backtester.py:164  10000.0 *)
InitialCapital == 1024

(* backtest_full.py:366, backtester.py:198  capital * 0.85, in percent *)
BacktestPositionPercent == 85

(* backtest_full.py:362, backtester.py:193  hold_days=5 *)
BacktestHoldDays == 5

(* weekday() of the first day of a range: a Monday, a Friday, a Saturday *)
StartWeekdays == {0, 4, 5}

(* backtest_full.py:313  current_date.weekday() *)
Weekday(d) == (start_weekday + d - 1) % 7

(* the best_stock candidate of a day: two that meet the criteria of              *)
(* backtest_full.py:345 (one with frequency exactly 0.4 and a drawdown     *)
(* beyond -20%), one with too low a frequency, one without a single gain   *)
BestCandidates ==
    { [frequency |-> 75, avg_gain |-> 400, avg_drawdown |-> -300],
      [frequency |-> 40, avg_gain |-> 300, avg_drawdown |-> -2000],
      [frequency |-> 25, avg_gain |-> 1000, avg_drawdown |-> -400],
      [frequency |-> 0, avg_gain |-> 0, avg_drawdown |-> -500] }

(* the dicts of test_stocks: 'avg_gain' and 'avg_drawdown', the second     *)
(* with the defaults of backtester.py:184-185                              *)
TestStocks ==
    { [avg_gain |-> 0, avg_drawdown |-> -500],
      [avg_gain |-> 1000, avg_drawdown |-> -800] }

(* what simulate_trade returns when it returns a trade: the entry price,   *)
(* the exit price and the days from entry to exit.  85% of the capital at  *)
(* these prices gains or loses a half or a quarter of the capital, or      *)
(* nothing, so that the capital stays a whole number of its units          *)
TradeOutcomes ==
    { [entry_price |-> 17, exit_price |-> 27, exit_lag |-> 1],
      [entry_price |-> 17, exit_price |-> 7, exit_lag |-> 2],
      [entry_price |-> 17, exit_price |-> 17, exit_lag |-> 5],
      [entry_price |-> 34, exit_price |-> 44, exit_lag |-> 5],
      [entry_price |-> 34, exit_price |-> 24, exit_lag |-> 3] }

(* faulty variant: the stop of the live path's band [-0.20, -0.08] *)
BacktestStopLossPctClamped(avg_drawdown) ==
    LET pct == (15 * avg_drawdown) \div 10
    IN  IF pct > -800 THEN -800 ELSE IF pct < -2000 THEN -2000 ELSE pct

(* backtest_full.py:361  best_stock['avg_drawdown'] * 1.5 *)
BacktestStopLossPct(avg_drawdown) == (15 * avg_drawdown) \div 10

(* backtester.py:192  avg_drawdown * 1.1 *)
StrategyStopLossPct(avg_drawdown) == (11 * avg_drawdown) \div 10

(* backtest_full.py:357-363 *)
SimulateDayRequest(best_stock) ==
    [op |-> "simulate_trade", caller |-> "simulate_day",
     candidate |-> best_stock, entry_date |-> current_date + 1,
     take_profit_pct |-> best_stock.avg_gain,
     stop_loss_pct |-> BacktestStopLossPct(best_stock.avg_drawdown),
     hold_days |-> BacktestHoldDays]

(* backtester.py:188-194 *)
StrategyRequest(stock_data) ==
    [op |-> "simulate_trade", caller |-> "backtest_strategy",
     candidate |-> stock_data, entry_date |-> current_date,
     take_profit_pct |-> stock_data.avg_gain,
     stop_loss_pct |-> StrategyStopLossPct(stock_data.avg_drawdown),
     hold_days |-> BacktestHoldDays]

(* faulty variant: the whole capital is the position *)
TradePnlAllIn(cap, bought, sold) == (cap * (sold - bought)) \div bought

(* backtest_full.py:366-368, backtester.py:198-200:                        *)
(* (capital * 0.85 / entry_price) * pnl, for a share bought at entry_price  *)
(* and sold at exit_price                                                  *)
TradePnl(cap, bought, sold) ==
    (cap * BacktestPositionPercent * (sold - bought)) \div (100 * bought)

(* backtest_full.py:365-393: the trade result as simulate_day records it *)
DayTrade(o) ==
    [analysis_date |-> current_date,
     entry_date |-> current_date + 1,
     exit_date |-> current_date + 1 + o.exit_lag,
     entry_price |-> o.entry_price, exit_price |-> o.exit_price,
     pnl |-> o.exit_price - o.entry_price,
     trade_pnl |-> TradePnl(capital, o.entry_price, o.exit_price),
     capital_before |-> capital,
     capital_after |->
         capital + TradePnl(capital, o.entry_price, o.exit_price)]

(* backtester.py:196-208: the trade result as backtest_strategy records it *)
StrategyTrade(o) ==
    [entry_date |-> current_date,
     exit_date |-> current_date + o.exit_lag,
     entry_price |-> o.entry_price, exit_price |-> o.exit_price,
     pnl |-> o.exit_price - o.entry_price,
     trade_pnl |-> TradePnl(capital, o.entry_price, o.exit_price),
     capital_after |->
         capital + TradePnl(capital, o.entry_price, o.exit_price)]

(* faulty variant: the day's point is taken after simulate_day *)
LedgerAfterDayPostTrade(log, d, before, after) ==
    Append(log, [date |-> d, capital |-> after])

(* backtest_full.py:432-437: the point of day d is appended with the       *)
(* capital held before simulate_day runs                                   *)
LedgerAfterDay(log, d, before, after) ==
    Append(log, [date |-> d, capital |-> before])

(* backtest_full.py:459, backtester.py:223  t['pnl'] > 0 *)
IsWin(t) == t.pnl > 0

(* backtest_full.py:460, backtester.py:224  t['pnl'] <= 0 *)
IsLoss(t) == t.pnl <= 0

RECURSIVE SumTradePnl(_)
SumTradePnl(ts) ==
    IF ts = << >> THEN 0 ELSE Head(ts).trade_pnl + SumTradePnl(Tail(ts))

(* backtest_full.py:464-465: sum(trade_pnl) / len, or 0 for an empty list *)
AverageTradePnl(ts) ==
    IF ts # << >> THEN Frac(SumTradePnl(ts), Len(ts)) ELSE Frac(0, 1)

Abs(x) == IF x < 0 THEN -x ELSE x

(* backtest_full.py:467  abs(avg_win / avg_loss) if avg_loss != 0 else 0 *)
ProfitFactor(avg_win, avg_loss) ==
    IF avg_loss.num # 0
        THEN Frac(Abs(avg_win.num * avg_loss.den),
                  Abs(avg_win.den * avg_loss.num))
        ELSE Frac(0, 1)

(* f > g for fractions with positive denominators *)
FracGreater(f, g) == f.num * g.den > g.num * f.den

(* faulty variant: the drawdown is measured from the initial capital, the  *)
(* peak never moves                                                        *)
RECURSIVE MaxDrawdownFromStart(_, _, _)
MaxDrawdownFromStart(capitals, max_capital, max_drawdown) ==
    IF capitals = << >> THEN max_drawdown
    ELSE LET drawdown == Frac(max_capital - Head(capitals), max_capital)
         IN  MaxDrawdownFromStart(Tail(capitals), max_capital,
                 IF FracGreater(drawdown, max_drawdown) THEN drawdown
                 ELSE max_drawdown)

(* backtest_full.py:470-475, backtester.py:232-238: the loop over the      *)
(* ledger with its two running values                                      *)
RECURSIVE MaxDrawdownOver(_, _, _)
MaxDrawdownOver(capitals, max_capital, max_drawdown) ==
    IF capitals = << >> THEN max_drawdown
    ELSE LET peak == Maximum(max_capital, Head(capitals))
             drawdown == Frac(peak - Head(capitals), peak)
         IN  MaxDrawdownOver(Tail(capitals), peak,
                 IF FracGreater(drawdown, max_drawdown) THEN drawdown
                 ELSE max_drawdown)

(* backtest_full.py:456-492, backtester.py:220-254: the statistics of a    *)
(* run with at least one trade, over the ledger of capitals                *)
BacktestStatistics(ts, capitals, final_capital) ==
    LET wins == SelectSeq(ts, IsWin)
        losses == SelectSeq(ts, IsLoss)
        avg_win == AverageTradePnl(wins)
        avg_loss == AverageTradePnl(losses)
        max_drawdown == MaxDrawdownOver(capitals, InitialCapital, Frac(0, 1))
    IN  [kind |-> "statistics",
         initial_capital |-> InitialCapital,
         final_capital |-> final_capital,
         total_pnl |-> final_capital - InitialCapital,
         total_pnl_percent |->
             Frac((final_capital - InitialCapital) * 100, InitialCapital),
         num_trades |-> Len(ts),
         num_wins |-> Len(wins),
         num_losses |-> Len(losses),
         win_rate |-> Frac(Len(wins) * 100, Len(ts)),
         avg_win |-> avg_win,
         avg_loss |-> avg_loss,
         profit_factor |-> ProfitFactor(avg_win, avg_loss),
         max_drawdown |-> Frac(max_drawdown.num * 100, max_drawdown.den)]

(* backtest_full.py:447-492 *)
CalculateStatistics ==
    IF trades = << >>
        THEN [kind |-> "error", error |-> "No trades executed",
              initial_capital |-> InitialCapital,
              final_capital |-> capital]
        ELSE BacktestStatistics(trades,
                 [k \in 1..Len(daily_log) |-> daily_log[k].capital],
                 capital)

(* backtester.py:215-257 *)
StrategyStatistics ==
    IF trades = << >>
        THEN [kind |-> "error", error |-> "No trades executed"]
        ELSE BacktestStatistics(trades,
                 [k \in 1..Len(trades) |-> trades[k].capital_after],
                 capital)

BtInit ==
    /\ component = "backtest"
    /\ bt_mode \in {"full", "strategy"}
    /\ bt_pc = "loop"
    /\ start_weekday \in IF bt_mode = "full" THEN StartWeekdays ELSE {0}
    /\ last_date \in IF bt_mode = "full" THEN {MaxBtDays} ELSE 0..MaxBtDays
    /\ current_date = 1
    /\ capital = InitialCapital
    /\ trades = << >>
    /\ daily_log = << >>
    /\ day_result = "none"
    /\ sim_request = NoCall
    /\ bt_stats = NoneResult
    /\ SimIdle
    /\ RiskIdle
    /\ LiveIdle
    /\ SelIdle
    /\ StatIdle
    /\ DbIdle
    /\ AnaIdle

(* one turn of the loop of run_full_backtest is about to run *)
InDay ==
    /\ component = "backtest" /\ bt_mode = "full" /\ bt_pc = "loop"
    /\ current_date <= last_date

(* backtest_full.py:431-439 around a simulate_day that returns None before *)
(* it calls simulate_trade                                                 *)
DayWithoutSimulation(why) ==
    /\ day_result' = why
    /\ daily_log' = LedgerAfterDay(daily_log, current_date, capital, capital)
    /\ current_date' = current_date + 1
    /\ UNCHANGED <<component, dbVars, simVars, riskVars, risk_call, liveVars,
                   selVars, stat_call, anaVars, bt_mode, bt_pc,
                   start_weekday, last_date, capital, trades, sim_request,
                   bt_stats>>

(* backtest_full.py:312-315  a Saturday or a Sunday *)
BtWeekend ==
    /\ InDay
    /\ Weekday(current_date) >= 5
    /\ DayWithoutSimulation("Weekend - Skipped")

(* backtest_full.py:317-323  no earnings on the next day *)
BtNoEarnings ==
    /\ InDay
    /\ Weekday(current_date) < 5
    /\ DayWithoutSimulation("No earnings tomorrow - Skipped")

(* backtest_full.py:328-337  no stock was analysed *)
BtNoQualifying ==
    /\ InDay
    /\ Weekday(current_date) < 5
    /\ DayWithoutSimulation("No qualifying stocks - Skipped")

(* backtest_full.py:339-347  the best_stock stock does not meet the criteria *)
BtCriteriaNotMet ==
    /\ InDay
    /\ Weekday(current_date) < 5
    /\ \E best_stock \in BestCandidates : ~ MeetsCriteria(best_stock)
    /\ DayWithoutSimulation("doesn't meet criteria - Skipped")

(* backtest_full.py:357-363, 392-394  simulate_trade returns None *)
BtSimulationFails ==
    /\ InDay
    /\ Weekday(current_date) < 5
    /\ \E best_stock \in BestCandidates :
          /\ MeetsCriteria(best_stock)
          /\ sim_request' = SimulateDayRequest(best_stock)
    /\ day_result' = "Trade simulation failed"
    /\ daily_log' = LedgerAfterDay(daily_log, current_date, capital, capital)
    /\ current_date' = current_date + 1
    /\ UNCHANGED <<component, dbVars, simVars, riskVars, risk_call, liveVars,
                   selVars, stat_call, anaVars, bt_mode, bt_pc,
                   start_weekday, last_date, capital, trades, bt_stats>>

(* backtest_full.py:357-391  the trade is executed and recorded *)
BtTradeExecuted ==
    /\ InDay
    /\ Weekday(current_date) < 5
    /\ \E best_stock \in BestCandidates, o \in TradeOutcomes :
          /\ MeetsCriteria(best_stock)
          /\ sim_request' = SimulateDayRequest(best_stock)
          /\ capital' = capital + TradePnl(capital, o.entry_price,
                                           o.exit_price)
          /\ trades' = Append(trades, DayTrade(o))
    /\ day_result' = "trade"
    /\ daily_log' = LedgerAfterDay(daily_log, current_date, capital,
                                   capital')
    /\ current_date' = current_date + 1
    /\ UNCHANGED <<component, dbVars, simVars, riskVars, risk_call, liveVars,
                   selVars, stat_call, anaVars, bt_mode, bt_pc,
                   start_weekday, last_date, bt_stats>>

(* backtest_full.py:445, 447-492  the range is over: calculate_statistics *)
BtCalculateStatistics ==
    /\ component = "backtest" /\ bt_mode = "full" /\ bt_pc = "loop"
    /\ current_date > last_date
    /\ bt_stats' = CalculateStatistics
    /\ bt_pc' = "done"
    /\ UNCHANGED <<component, dbVars, simVars, riskVars, risk_call, liveVars,
                   selVars, stat_call, anaVars, bt_mode, start_weekday,
                   last_date, current_date, capital, trades, daily_log,
                   day_result, sim_request>>

(* the loop of backtest_strategy is about to handle a stock *)
InList ==
    /\ component = "backtest" /\ bt_mode = "strategy" /\ bt_pc = "loop"
    /\ current_date <= last_date

(* backtester.py:181-196  simulate_trade returns None: the stock is passed *)
BtStrategyNoTrade ==
    /\ InList
    /\ \E stock_data \in TestStocks :
          sim_request' = StrategyRequest(stock_data)
    /\ current_date' = current_date + 1
    /\ UNCHANGED <<component, dbVars, simVars, riskVars, risk_call, liveVars,
                   selVars, stat_call, anaVars, bt_mode, bt_pc,
                   start_weekday, last_date, capital, trades, daily_log,
                   day_result, bt_stats>>

(* backtester.py:181-213  the trade is executed and recorded *)
BtStrategyTrade ==
    /\ InList
    /\ \E stock_data \in TestStocks, o \in TradeOutcomes :
          /\ sim_request' = StrategyRequest(stock_data)
          /\ capital' = capital + TradePnl(capital, o.entry_price,
                                           o.exit_price)
          /\ trades' = Append(trades, StrategyTrade(o))
    /\ current_date' = current_date + 1
    /\ UNCHANGED <<component, dbVars, simVars, riskVars, risk_call, liveVars,
                   selVars, stat_call, anaVars, bt_mode, bt_pc,
                   start_weekday, last_date, daily_log, day_result,
                   bt_stats>>

(* backtester.py:215-257  the list is over: the statistics *)
BtStrategyStatistics ==
    /\ component = "backtest" /\ bt_mode = "strategy" /\ bt_pc = "loop"
    /\ current_date > last_date
    /\ bt_stats' = StrategyStatistics
    /\ bt_pc' = "done"
    /\ UNCHANGED <<component, dbVars, simVars, riskVars, risk_call, liveVars,
                   selVars, stat_call, anaVars, bt_mode, start_weekday,
                   last_date, current_date, capital, trades, daily_log,
                   day_result, sim_request>>

BtNext ==
    \/ BtWeekend
    \/ BtNoEarnings
    \/ BtNoQualifying
    \/ BtCriteriaNotMet
    \/ BtSimulationFails
    \/ BtTradeExecuted
    \/ BtCalculateStatistics
    \/ BtStrategyNoTrade
    \/ BtStrategyTrade
    \/ BtStrategyStatistics

BtSpec == BtInit /\ [][BtNext]_vars

----------------------------------------------------------------------------
(* Database (src/database.py): the trades table through log_trade_entry,   *)
(* log_trade_exit and get_open_trades.  Every method opens a connection of *)
(* its own with sqlite3.connect(self.db_path) (database.py:21-33); for the *)
(* path ":memory:" each connection is a new, empty database, so the tables *)
(* init_database created are not there and the statement raises            *)
(* sqlite3.OperationalError (no such table: trades).                       *)

(* the most rows of the trades table *)
MaxDbTrades == 3

DbTickers == {"AAPL", "MSFT"}

(* the path of config.py:184, and the one of the fixture of                *)
(* test_bot.py:62-65                                                       *)
DbPaths == {"file", ":memory:"}

OperationalError == [kind |-> "OperationalError"]

(* database.py:114-134  INSERT ... status 'open'; the id is the row's place *)
TradesAfterEntry(rows, ticker) ==
    Append(rows, [ticker |-> ticker, status |-> "open"])

(* database.py:136-147  UPDATE trades SET status = 'closed'                *)
(* WHERE ticker = ? AND status = 'open'                                    *)
TradesAfterExit(rows, ticker) ==
    [k \in 1..Len(rows) |->
        IF rows[k].ticker = ticker /\ rows[k].status = "open"
            THEN [ticker |-> ticker, status |-> "closed"]
            ELSE rows[k]]

(* database.py:175-180  SELECT * FROM trades WHERE status = 'open': the    *)
(* ids of the rows returned                                                *)
OpenTrades(rows) == {k \in 1..Len(rows) : rows[k].status = "open"}

DbInit ==
    /\ component = "database"
    /\ db_path \in DbPaths
    /\ db_trades = << >>
    /\ db_call = NoCall
    /\ SimIdle
    /\ RiskIdle
    /\ LiveIdle
    /\ SelIdle
    /\ StatIdle
    /\ BtIdle
    /\ AnaIdle

(* database.py:114-134 *)
DbLogTradeEntry ==
    /\ component = "database" /\ db_path = "file"
    /\ Len(db_trades) < MaxDbTrades
    /\ \E ticker \in DbTickers :
          /\ db_trades' = TradesAfterEntry(db_trades, ticker)
          /\ db_call' = [op |-> "log_trade_entry", ticker |-> ticker,
                         out |-> Len(db_trades) + 1]
    /\ UNCHANGED <<component, simVars, riskVars, risk_call, liveVars,
                   selVars, stat_call, anaVars, btVars, db_path>>

(* database.py:136-147 *)
DbLogTradeExit ==
    /\ component = "database" /\ db_path = "file"
    /\ \E ticker \in DbTickers :
          /\ db_trades' = TradesAfterExit(db_trades, ticker)
          /\ db_call' = [op |-> "log_trade_exit", ticker |-> ticker,
                         out |-> "None"]
    /\ UNCHANGED <<component, simVars, riskVars, risk_call, liveVars,
                   selVars, stat_call, anaVars, btVars, db_path>>

(* database.py:175-180 *)
DbGetOpenTrades ==
    /\ component = "database" /\ db_path = "file"
    /\ db_call' = [op |-> "get_open_trades", out |-> OpenTrades(db_trades)]
    /\ UNCHANGED <<component, simVars, riskVars, risk_call, liveVars,
                   selVars, stat_call, anaVars, btVars, db_path, db_trades>>

(* database.py:21-33, 116-118, 139-141, 177-179: with ":memory:" the       *)
(* statement fails, the connection rolls back and the error is re-raised   *)
DbNoSuchTable ==
    /\ component = "database" /\ db_path = ":memory:"
    /\ \/ \E ticker \in DbTickers, op \in {"log_trade_entry", "log_trade_exit"} :
             db_call' = [op |-> op, ticker |-> ticker,
                         out |-> OperationalError]
       \/ db_call' = [op |-> "get_open_trades", out |-> OperationalError]
    /\ UNCHANGED <<component, simVars, riskVars, risk_call, liveVars,
                   selVars, stat_call, anaVars, btVars, db_path, db_trades>>

DbNext ==
    \/ DbLogTradeEntry
    \/ DbLogTradeExit
    \/ DbGetOpenTrades
    \/ DbNoSuchTable

DbSpec == DbInit /\ [][DbNext]_vars

----------------------------------------------------------------------------
(* main_loop and run_daily_analysis (src/main.py)                          *)
(*                                                                         *)
(* The day is split at the analysis hour: "before" it, the "analysis"      *)
(* hour itself (now.hour == config.bot.analysis_hour), and "after" it.     *)

DayParts == <<"before", "analysis", "after">>

LiveEquities == {0, 9000, 10000}

(* the clock values one part of a day later, within the days followed *)
NextPart(c) ==
    IF c.part = "before" THEN {[day |-> c.day, part |-> "analysis"]}
    ELSE IF c.part = "analysis" THEN {[day |-> c.day, part |-> "after"]}
    ELSE IF c.day < MaxDay THEN {[day |-> c.day + 1, part |-> "before"]}
    ELSE {}

PartIndex(part) == CHOOSE i \in 1..Len(DayParts) : DayParts[i] = part

(* every clock value not earlier than c *)
NotEarlier(c) ==
    {[day |-> d, part |-> DayParts[i]] : d \in c.day..MaxDay, i \in 1..Len(DayParts)}
        \ {x \in [day : {c.day}, part : {"before", "analysis", "after"}] :
              PartIndex(x.part) < PartIndex(c.part)}

(* time.sleep(300): five minutes later *)
AfterRetrySleep(c) == {c} \cup NextPart(c)

(* time.sleep(config.bot.loop_sleep_seconds), one hour by default *)
AfterLoopSleep(c) ==
    IF c.part = "analysis" THEN NextPart(c) ELSE {c} \cup NextPart(c)

(* time.sleep(60 * 60 * 23) from the analysis hour *)
AfterDaySleep(c) ==
    IF c.day < MaxDay
    THEN {[day |-> c.day + 1, part |-> "before"],
          [day |-> c.day + 1, part |-> "analysis"]}
    ELSE {}

(* time passes to c2: the market moves the equity, a new day starts the count *)
TimePasses(c2) ==
    /\ clock' = c2
    /\ account_equity' \in LiveEquities
    /\ updates_today' = IF c2.day = clock.day THEN updates_today ELSE 0

(* main.py:337 *)
AnalysisDue(part, day, last) == part = "analysis" /\ day # last

LiveInit ==
    /\ component = "live"
    /\ SimIdle
    /\ RiskIdle
    /\ SelIdle
    /\ StatIdle
    /\ DbIdle
    /\ BtIdle
    /\ AnaIdle
    /\ live_pc = "top"
    /\ clock = [day |-> 1, part |-> "before"]
    /\ last_analysis_date = 0
    /\ today = 0
    /\ open_position \in BOOLEAN
    /\ account_equity \in LiveEquities \ {0}
    /\ equity = 0
    /\ updates_today = 0
    /\ faults = 0

(* main.py:316-326  get_all_positions finds an open position *)
LivePositionsOpen ==
    /\ component = "live" /\ live_pc = "top"
    /\ open_position
    /\ live_pc' = "monitor"
    /\ UNCHANGED <<component, dbVars, btVars, stat_call, anaVars, selVars, simVars, riskVars, risk_call, clock,
                   last_analysis_date, today, open_position, account_equity,
                   equity, updates_today, faults>>

(* main.py:316, 331-335  no position, or trader.py:201-203 returns [] *)
LivePositionsNone ==
    /\ component = "live" /\ live_pc = "top"
    /\ live_pc' = "check_time"
    /\ today' = clock.day
    /\ UNCHANGED <<component, dbVars, btVars, stat_call, anaVars, selVars, simVars, riskVars, risk_call, clock,
                   last_analysis_date, open_position, account_equity,
                   equity, updates_today, faults>>

(* main.py:243-276, 329  monitor_position returns when the position closed *)
LiveMonitorClosed ==
    /\ component = "live" /\ live_pc = "monitor"
    /\ \E c2 \in NotEarlier(clock) : TimePasses(c2)
    /\ open_position' = FALSE
    /\ live_pc' = "top"
    /\ UNCHANGED <<component, dbVars, btVars, stat_call, anaVars, selVars, simVars, riskVars, risk_call,
                   last_analysis_date, today, equity, faults>>

(* main.py:337-341  it is the analysis hour and today was not analysed *)
LiveAnalysisDue ==
    /\ component = "live" /\ live_pc = "check_time"
    /\ AnalysisDue(clock.part, today, last_analysis_date)
    /\ live_pc' = "rda_account"
    /\ UNCHANGED <<component, dbVars, btVars, stat_call, anaVars, selVars, simVars, riskVars, risk_call, clock,
                   last_analysis_date, today, open_position, account_equity,
                   equity, updates_today, faults>>

(* main.py:350-356  not time for analysis: sleep loop_sleep_seconds *)
LiveWait ==
    /\ component = "live" /\ live_pc = "check_time"
    /\ ~AnalysisDue(clock.part, today, last_analysis_date)
    /\ \E c2 \in AfterLoopSleep(clock) : TimePasses(c2)
    /\ live_pc' = "top"
    /\ UNCHANGED <<component, dbVars, btVars, stat_call, anaVars, selVars, simVars, riskVars, risk_call,
                   last_analysis_date, today, open_position, equity, faults>>

(* main.py:159-163  get_account_info returns {} *)
LiveAccountUnavailable ==
    /\ component = "live" /\ live_pc = "rda_account"
    /\ live_pc' = "rda_return"
    /\ UNCHANGED <<component, dbVars, btVars, stat_call, anaVars, selVars, simVars, riskVars, risk_call, clock,
                   last_analysis_date, today, open_position, account_equity,
                   equity, updates_today, faults>>

(* main.py:165-169  set_daily_start_balance(equity) *)
LiveSetDailyStart ==
    /\ component = "live" /\ live_pc = "rda_account"
    /\ equity' = account_equity
    /\ daily_start_balance' = Some(account_equity)
    /\ max_drawdown_balance' = NewHighWaterMark(max_drawdown_balance, account_equity)
    /\ risk_call' = [op |-> "set_daily_start_balance", balance |-> account_equity]
    /\ updates_today' = updates_today + 1
    /\ live_pc' = "rda_snapshot"
    /\ UNCHANGED <<component, dbVars, btVars, stat_call, anaVars, selVars, simVars, clock, last_analysis_date, today,
                   open_position, account_equity, faults>>

(* main.py:172-177  log_account_snapshot *)
LiveSnapshotLogged ==
    /\ component = "live" /\ live_pc = "rda_snapshot"
    /\ live_pc' = "rda_can_trade"
    /\ UNCHANGED <<component, dbVars, btVars, stat_call, anaVars, selVars, simVars, riskVars, risk_call, clock,
                   last_analysis_date, today, open_position, account_equity,
                   equity, updates_today, faults>>

(* main.py:172, database.py:27-33  the insert fails and the error is re-raised *)
LiveSnapshotFails ==
    /\ component = "live" /\ live_pc = "rda_snapshot"
    /\ faults < MaxFaults
    /\ faults' = faults + 1
    /\ live_pc' = "except"
    /\ UNCHANGED <<component, dbVars, btVars, stat_call, anaVars, selVars, simVars, riskVars, risk_call, clock,
                   last_analysis_date, today, open_position, account_equity,
                   equity, updates_today>>

(* main.py:180  can_trade divides by a zero balance *)
LiveRiskCheckRaises ==
    /\ component = "live" /\ live_pc = "rda_can_trade"
    /\ CanTrade(daily_start_balance, max_drawdown_balance, equity).kind # "return"
    /\ faults < MaxFaults
    /\ faults' = faults + 1
    /\ live_pc' = "except"
    /\ UNCHANGED <<component, dbVars, btVars, stat_call, anaVars, selVars, simVars, riskVars, risk_call, clock,
                   last_analysis_date, today, open_position, account_equity,
                   equity, updates_today>>

(* main.py:180-184  a risk limit is hit: return None *)
LiveRiskRefuses ==
    /\ component = "live" /\ live_pc = "rda_can_trade"
    /\ CanTrade(daily_start_balance, max_drawdown_balance, equity).kind = "return"
    /\ ~CanTrade(daily_start_balance, max_drawdown_balance, equity).ok
    /\ live_pc' = "rda_return"
    /\ UNCHANGED <<component, dbVars, btVars, stat_call, anaVars, selVars, simVars, riskVars, risk_call, clock,
                   last_analysis_date, today, open_position, account_equity,
                   equity, updates_today, faults>>

(* main.py:180-187  all risk checks passed *)
LiveRiskAllows ==
    /\ component = "live" /\ live_pc = "rda_can_trade"
    /\ CanTrade(daily_start_balance, max_drawdown_balance, equity).kind = "return"
    /\ CanTrade(daily_start_balance, max_drawdown_balance, equity).ok
    /\ live_pc' = "rda_find"
    /\ UNCHANGED <<component, dbVars, btVars, stat_call, anaVars, selVars, simVars, riskVars, risk_call, clock,
                   last_analysis_date, today, open_position, account_equity,
                   equity, updates_today, faults>>

(* main.py:188-193  find_best_stock returns None *)
LiveNoOpportunity ==
    /\ component = "live" /\ live_pc = "rda_find"
    /\ live_pc' = "rda_return"
    /\ UNCHANGED <<component, dbVars, btVars, stat_call, anaVars, selVars, simVars, riskVars, risk_call, clock,
                   last_analysis_date, today, open_position, account_equity,
                   equity, updates_today, faults>>

(* main.py:188-190  find_best_stock returns a candidate *)
LiveBestFound ==
    /\ component = "live" /\ live_pc = "rda_find"
    /\ live_pc' = "rda_log"
    /\ UNCHANGED <<component, dbVars, btVars, stat_call, anaVars, selVars, simVars, riskVars, risk_call, clock,
                   last_analysis_date, today, open_position, account_equity,
                   equity, updates_today, faults>>

(* main.py:213-230  log_analysis_result *)
LiveResultLogged ==
    /\ component = "live" /\ live_pc = "rda_log"
    /\ live_pc' = "rda_place"
    /\ UNCHANGED <<component, dbVars, btVars, stat_call, anaVars, selVars, simVars, riskVars, risk_call, clock,
                   last_analysis_date, today, open_position, account_equity,
                   equity, updates_today, faults>>

(* main.py:213, database.py:27-33  the insert fails and the error is re-raised *)
LiveResultLogFails ==
    /\ component = "live" /\ live_pc = "rda_log"
    /\ faults < MaxFaults
    /\ faults' = faults + 1
    /\ live_pc' = "except"
    /\ UNCHANGED <<component, dbVars, btVars, stat_call, anaVars, selVars, simVars, riskVars, risk_call, clock,
                   last_analysis_date, today, open_position, account_equity,
                   equity, updates_today>>

(* main.py:233-240, trader.py:50-157  the bracket order is submitted and   *)
(* the entry is logged (trader.py:134-145)                                 *)
LiveOrderPlaced ==
    /\ component = "live" /\ live_pc = "rda_place"
    /\ CanTrade(daily_start_balance, max_drawdown_balance, account_equity).kind
          = "return"
    /\ CanTrade(daily_start_balance, max_drawdown_balance, account_equity).ok
    /\ open_position' = TRUE
    /\ \E ticker \in DbTickers :
          /\ db_trades' = TradesAfterEntry(db_trades, ticker)
          /\ db_call' = [op |-> "log_trade_entry", ticker |-> ticker,
                         out |-> Len(db_trades) + 1]
    /\ live_pc' = "rda_return"
    /\ UNCHANGED <<component, db_path, btVars, stat_call, anaVars, selVars,
                   simVars, riskVars, risk_call, clock, last_analysis_date,
                   today, account_equity, equity, updates_today, faults>>

(* trader.py:61-97, 159-162  place_bracket_order returns None *)
LiveOrderNotPlaced ==
    /\ component = "live" /\ live_pc = "rda_place"
    /\ live_pc' = "rda_return"
    /\ UNCHANGED <<component, dbVars, btVars, stat_call, anaVars, selVars, simVars, riskVars, risk_call, clock,
                   last_analysis_date, today, open_position, account_equity,
                   equity, updates_today, faults>>

(* main.py:341-348  run_daily_analysis returned: mark the day, sleep 23 h *)
LiveAnalysisComplete ==
    /\ component = "live" /\ live_pc = "rda_return"
    /\ last_analysis_date' = today
    /\ \E c2 \in AfterDaySleep(clock) : TimePasses(c2)
    /\ live_pc' = "top"
    /\ UNCHANGED <<component, dbVars, btVars, stat_call, anaVars, selVars, simVars, riskVars, risk_call, today,
                   open_position, equity, faults>>

(* main.py:363-367  except Exception: retry in 5 minutes *)
LiveRetry ==
    /\ component = "live" /\ live_pc = "except"
    /\ \E c2 \in AfterRetrySleep(clock) : TimePasses(c2)
    /\ live_pc' = "top"
    /\ UNCHANGED <<component, dbVars, btVars, stat_call, anaVars, selVars, simVars, riskVars, risk_call,
                   last_analysis_date, today, open_position, equity, faults>>

LiveNext ==
    \/ LivePositionsOpen
    \/ LivePositionsNone
    \/ LiveMonitorClosed
    \/ LiveAnalysisDue
    \/ LiveWait
    \/ LiveAccountUnavailable
    \/ LiveSetDailyStart
    \/ LiveSnapshotLogged
    \/ LiveSnapshotFails
    \/ LiveRiskCheckRaises
    \/ LiveRiskRefuses
    \/ LiveRiskAllows
    \/ LiveNoOpportunity
    \/ LiveBestFound
    \/ LiveResultLogged
    \/ LiveResultLogFails
    \/ LiveOrderPlaced
    \/ LiveOrderNotPlaced
    \/ LiveAnalysisComplete
    \/ LiveRetry

LiveSpec == LiveInit /\ [][LiveNext]_vars

----------------------------------------------------------------------------
(* The components together *)

Init == SimInit \/ RiskInit \/ LiveInit \/ SelInit \/ StatInit \/ AnaInit
            \/ FundInit \/ BtInit \/ DbInit

Next == SimNext \/ RiskNext \/ LiveNext \/ SelNext \/ StatNext \/ AnaNext
            \/ FundNext \/ BtNext \/ DbNext

Spec == Init /\ [][Next]_vars

----------------------------------------------------------------------------
(* Properties of simulate_trade, stated over the arguments and the series  *)
(* only (sets of dates), not over the locals of the loop.                  *)

SetMin(S) == CHOOSE x \in S : \A y \in S : x <= y
SetMax(S) == CHOOSE x \in S : \A y \in S : x >= y

TradingDays == {d \in Dates : df[d] # 0}

(* the bars on or after the requested entry date *)
OnOrAfter == {d \in TradingDays : d >= req_entry_date}

(* the entry day the contract prescribes (defined when OnOrAfter # {}) *)
ResolvedEntry ==
    IF req_entry_date \in TradingDays THEN req_entry_date
    ELSE SetMin({d \in TradingDays : d > req_entry_date})

(* the next hold_days trading days strictly after the resolved entry *)
Window ==
    {d \in TradingDays :
        /\ d > ResolvedEntry
        /\ Cardinality({x \in TradingDays : ResolvedEntry < x /\ x <= d})
              <= hold_days}

EntryClose == BarShapes[df[ResolvedEntry]].close
TpLevel == EntryClose * (PctScale + take_profit_pct)
SlLevel == EntryClose * (PctScale + stop_loss_pct)
HitsTp(d) == BarShapes[df[d]].high * PctScale >= TpLevel
HitsSl(d) == BarShapes[df[d]].low * PctScale <= SlLevel
Triggers(d) == HitsTp(d) \/ HitsSl(d)
TriggerDays == {d \in Window : Triggers(d)}

Traded == sim_pc = "done" /\ sim_result.kind = "trade"

(* C1: a day of the holding window whose range spans both trigger levels   *)
(* (high >= take-profit price and low <= stop-loss price), reached with    *)
(* the position still open, closes the trade on that day as TAKE_PROFIT at *)
(* the take-profit price; no trade ever ends as STOP_LOSS on such a day.   *)
C1_TakeProfitWinsTie ==
    Traded =>
        \A d \in Window :
            (HitsTp(d) /\ HitsSl(d)) =>
                /\ ~(sim_result.exit_date = d
                     /\ sim_result.exit_reason = "Stop loss hit")
                /\ (\A e \in Window : e < d => ~Triggers(e)) =>
                      /\ sim_result.exit_date = d
                      /\ sim_result.exit_reason = "Take profit hit"
                      /\ sim_result.exit_price = TpLevel

C1_Witness ==
    /\ Traded
    /\ HitsTp(sim_result.exit_date) /\ HitsSl(sim_result.exit_date)
    /\ sim_result.exit_reason = "Take profit hit"

(* the series of the worked example: entry bar closing at 100, then a day  *)
(* 105/97, then a day 112/98, with take profit 10% and stop loss -8%       *)
ExampleRun ==
    /\ req_entry_date = 1
    /\ df[1] = 1 /\ df[2] = 1 /\ df[3] = 2
    /\ take_profit_pct = 10 /\ stop_loss_pct = -8
    /\ hold_days = 2

(* C2: the trade exits on the earliest day of the window (the next         *)
(* hold_days trading days strictly after the entry day) on which a trigger *)
(* fires; the exit price is the trigger level itself; days after it and    *)
(* the entry day's own bar play no part.  In the worked example the exit   *)
(* is TAKE_PROFIT at 110 on the second day, pnl 10, pnl_pct 10.            *)
C2_EarliestTrigger ==
    /\ (Traded /\ TriggerDays # {}) =>
          LET d == SetMin(TriggerDays)
          IN  /\ sim_result.exit_date = d
              /\ sim_result.exit_date > sim_result.entry_date
              /\ sim_result.exit_reason =
                    (IF HitsTp(d) THEN "Take profit hit" ELSE "Stop loss hit")
              /\ sim_result.exit_price = (IF HitsTp(d) THEN TpLevel ELSE SlLevel)
              /\ sim_result.pnl = sim_result.exit_price - EntryClose * PctScale
              /\ sim_result.pnl_percent.num = sim_result.pnl
              /\ sim_result.pnl_percent.den = EntryClose
    /\ (Traded /\ ExampleRun) =>
          /\ sim_result.exit_date = 3
          /\ sim_result.exit_reason = "Take profit hit"
          /\ sim_result.exit_price = 110 * PctScale
          /\ sim_result.pnl = 10 * PctScale
          /\ sim_result.pnl_percent.num = 10 * sim_result.pnl_percent.den

(* the entry day's own bar would have fired a trigger, a later day did *)
C2_Witness ==
    /\ Traded
    /\ Triggers(ResolvedEntry)
    /\ Cardinality(TriggerDays) >= 2
    /\ sim_result.exit_date = SetMin(TriggerDays)
    /\ sim_result.exit_price # BarShapes[df[sim_result.exit_date]].close * PctScale

(* C3: when no trigger fires on any day of the window, the trade exits at  *)
(* the close of the last available day of the window with the time-expiry  *)
(* reason, also when the window holds fewer than hold_days days.           *)
C3_TimeExpiry ==
    (Traded /\ TriggerDays = {}) =>
        /\ sim_result.exit_reason = "Hold period expired"
        /\ sim_result.exit_date = SetMax(Window)
        /\ sim_result.exit_price = BarShapes[df[SetMax(Window)]].close * PctScale

C3_Witness ==
    /\ Traded
    /\ TriggerDays = {}
    /\ Cardinality(Window) < hold_days
    /\ sim_result.exit_reason = "Hold period expired"

(* C4: the entry is entry_date itself when it is a trading day, otherwise  *)
(* the earliest bar after it, and entry_price is that bar's close; the     *)
(* call returns None exactly when no bar exists on or after entry_date or  *)
(* no trading day exists after the resolved entry.                         *)
C4_EntryResolution ==
    sim_pc = "done" =>
        /\ (sim_result = NoneResult) <=>
              (OnOrAfter = {}
               \/ {d \in TradingDays : d > ResolvedEntry} = {})
        /\ sim_result.kind = "trade" =>
              /\ sim_result.entry_date = ResolvedEntry
              /\ sim_result.entry_price = EntryClose

(* an entry date without a bar, forward-filled past bars that precede it *)
C4_Witness ==
    /\ Traded
    /\ req_entry_date \notin TradingDays
    /\ \E d \in TradingDays : d < req_entry_date
    /\ sim_result.entry_date > req_entry_date

----------------------------------------------------------------------------
(* Properties of RiskManager *)

(* C5: the high-water mark (max_drawdown_balance) never decreases once     *)
(* set; it changes only in set_daily_start_balance, to max(previous,       *)
(* balance); can_trade and the two check functions leave RiskState alone.  *)
C5_HighWaterMarkMonotonic ==
    [][ /\ ~max_drawdown_balance.is_none =>
              /\ ~max_drawdown_balance'.is_none
              /\ max_drawdown_balance'.v >= max_drawdown_balance.v
        /\ max_drawdown_balance' # max_drawdown_balance =>
              /\ risk_call'.op = "set_daily_start_balance"
              /\ max_drawdown_balance'.v =
                    (IF max_drawdown_balance.is_none
                        \/ risk_call'.balance > max_drawdown_balance.v
                     THEN risk_call'.balance ELSE max_drawdown_balance.v)
        /\ risk_call'.op \in {"can_trade", "check_daily_loss_limit",
                              "check_max_drawdown"} =>
              UNCHANGED <<daily_start_balance, max_drawdown_balance>>
      ]_vars

(* a day started below the mark: the mark stayed where it was *)
C5_Witness ==
    /\ risk_call.op = "set_daily_start_balance"
    /\ ~max_drawdown_balance.is_none
    /\ risk_call.balance < max_drawdown_balance.v
    /\ daily_start_balance.v = risk_call.balance

RiskStateSet ==
    /\ ~daily_start_balance.is_none /\ daily_start_balance.v > 0
    /\ ~max_drawdown_balance.is_none /\ max_drawdown_balance.v > 0

DailyLossReached(balance) ==
    (daily_start_balance.v - balance) * 100
        >= MaxDailyLossPercent * daily_start_balance.v

DrawdownReached(balance) ==
    (max_drawdown_balance.v - balance) * 100
        >= MaxDrawdownPercent * max_drawdown_balance.v

(* C7: with RiskState set, can_trade(balance) refuses exactly when         *)
(* (daily_start_balance - balance)/daily_start_balance reaches             *)
(* max_daily_loss_pct/100 or (high_water_mark - balance)/high_water_mark   *)
(* reaches max_drawdown_pct/100, the limits themselves included, and the   *)
(* daily-loss reason comes first.  From a start of 10000 with the 5%       *)
(* limit, 9600 is allowed and 9400 is not.                                 *)
C7_CanTradeLimits ==
    (risk_call.op = "can_trade" /\ RiskStateSet) =>
        /\ risk_call.out.kind = "return"
        /\ risk_call.out.ok <=>
              ~(DailyLossReached(risk_call.balance)
                \/ DrawdownReached(risk_call.balance))
        /\ DailyLossReached(risk_call.balance) =>
              risk_call.out.reason = "Daily loss limit exceeded"
        /\ (~DailyLossReached(risk_call.balance)
            /\ DrawdownReached(risk_call.balance)) =>
              risk_call.out.reason = "Max drawdown limit exceeded"
        /\ (daily_start_balance.v = 10000 /\ max_drawdown_balance.v = 10000) =>
              /\ risk_call.balance = 9600 => risk_call.out.ok
              /\ risk_call.balance = 9400 => ~risk_call.out.ok

(* a balance exactly on the daily limit (5% below the day's start) *)
C7_Witness ==
    /\ risk_call.op = "can_trade" /\ RiskStateSet
    /\ (daily_start_balance.v - risk_call.balance) * 100
          = MaxDailyLossPercent * daily_start_balance.v
    /\ ~risk_call.out.ok
    /\ risk_call.out.reason = "Daily loss limit exceeded"

(* 1.1 * avg_drawdown clamped into [-0.20, -0.08], in 1/BasisScale *)
ClampedStopPercent(dd) ==
    IF 11 * dd > -800 THEN -800
    ELSE IF 11 * dd < -2000 THEN -2000
    ELSE 11 * dd

C9_StopLossTestExpectation ==
    (/\ risk_call.op = "calculate_stop_loss"
     /\ risk_call.entry_price = 10000
     /\ risk_call.avg_drawdown = -50) =>
        /\ 9400 <= risk_call.out
        /\ risk_call.out <= 9500

C11_TakeProfitTestExpectation ==
    (/\ risk_call.op = "calculate_take_profit"
     /\ risk_call.entry_price = 10000
     /\ risk_call.avg_gain = 100) =>
        risk_call.out = 11000

(* C23: no ratio computation raises on a zero denominator; each returns a  *)
(* defined default instead: in particular check_daily_loss_limit,          *)
(* check_max_drawdown and can_trade return when daily_start_balance or     *)
(* the high-water mark is 0.                                               *)
C23_RatiosNeverRaise ==
    risk_call.op \in {"check_daily_loss_limit", "check_max_drawdown",
                      "can_trade"}
        => risk_call.out.kind = "return"

----------------------------------------------------------------------------
(* Properties of calculate_position_size *)

SizingCall == risk_call.op = "calculate_position_size"

(* the capital to use of a call, in cents *)
CapitalToUse ==
    SetMin({98 * risk_call.buying_power,
            risk_call.max_position_size_percent * risk_call.account_balance})

C13_PositionSizeTestExpectation ==
    (/\ SizingCall
     /\ risk_call.account_balance = 10000
     /\ risk_call.buying_power = 10000
     /\ risk_call.stock_price = 100
     /\ risk_call.max_position_size_percent = 60) =>
        risk_call.out.quantity = 58 * MicroShare

(* C14: the capital used never exceeds min(0.98 x buying_power,            *)
(* account_balance x max_position_size_percent / 100), for whole-share     *)
(* and for fractional quantities.                                          *)
C14_NeverOverSpends ==
    SizingCall =>
        \/ risk_call.out.capital.cents < CapitalToUse
        \/ /\ risk_call.out.capital.cents = CapitalToUse
           /\ risk_call.out.capital.frac = 0

----------------------------------------------------------------------------
(* Properties of best-candidate selection, stated over what the providers  *)
(* hold for the analysed tickers; a ticker is named by its place in the    *)
(* input order.                                                            *)

Ranked == sel_pc \in {"gate", "done"}

Analysed == 1..Len(tradable)

(* the tickers whose analysis fails: exception, or missing data *)
Failing == {i \in Analysed : tradable[i].kind \in {"raises", "no_data"}}

(* the live path asks the fundamentals provider, the backtest has none *)
MetricsOf(i) == GetFundamentalMetrics(sel_path = "live", tradable[i].provider)

ScoreOf(i) ==
    FinalScore(PriceScore(tradable[i].frequency, tradable[i].avg_gain),
               FundamentalScore(MetricsOf(i)))

(* of a set of analysable tickers, those the quality filter keeps *)
Survivors(S) == {i \in S : MetricsOf(i).eps_beat_rate >= 30}

(* of a set of analysable tickers, the survivor with the highest score,    *)
(* the first in input order among equals; 0 when there is no survivor      *)
TopRanked(S) ==
    IF Survivors(S) = {} THEN 0
    ELSE CHOOSE i \in Survivors(S) :
            \A j \in Survivors(S) :
                \/ ScoreOf(j) < ScoreOf(i)
                \/ ScoreOf(j) = ScoreOf(i) /\ i <= j

MeetsThresholds(i) ==
    IF sel_path = "live"
        THEN /\ ScoreOf(i) >= sel_config.min_score_threshold
             /\ tradable[i].avg_gain >= sel_config.min_avg_gain
        ELSE /\ tradable[i].frequency >= 40
             /\ tradable[i].avg_gain >= 100

(* the ticker selected from a batch of analysable tickers; 0 is None *)
Selection(S) ==
    LET t == TopRanked(S)
    IN  IF t # 0 /\ MeetsThresholds(t) THEN t ELSE 0

SelectedTicker == IF sel_result = NoneResult THEN 0 ELSE sel_result.ticker

(* C15: the returned candidate never has eps_beat_rate < 0.3: candidates   *)
(* below 0.3 are removed before ranking even when their final score is     *)
(* the highest of the batch, a candidate with exactly 0.3 is kept, and     *)
(* when every analysed candidate is removed the result is None.            *)
C15_QualityFilter ==
    Ranked =>
        /\ sel_result # NoneResult => ~ (sel_result.eps_beat_rate < 30)
        /\ best # NoneResult =>
              best.ticker \in Survivors(Analysed \ Failing)
        /\ (sel_path = "live" /\ sel_pc = "gate") =>
              {quality_results[k].ticker : k \in 1..Len(quality_results)}
                  = Survivors(Analysed \ Failing)
        /\ (sel_pc = "done" /\ Survivors(Analysed \ Failing) = {}) =>
              sel_result = NoneResult

(* a candidate with the highest score is removed, one with exactly 0.3 is  *)
(* ranked first                                                            *)
C15_Witness ==
    /\ sel_path = "live" /\ sel_pc = "gate"
    /\ best.eps_beat_rate = 30
    /\ \E i \in Analysed \ Failing :
          /\ MetricsOf(i).eps_beat_rate < 30
          /\ ScoreOf(i) > best.score

(* C16: among the candidates that survive the quality filter the selected  *)
(* one has the maximum final_score, and among several with the maximum it  *)
(* is the first in input ticker order; on the live path and on the         *)
(* backtest path.                                                          *)
C16_MaximumScoreFirstSeen ==
    sel_pc = "gate" =>
        /\ best.ticker \in Survivors(Analysed \ Failing)
        /\ best.score = ScoreOf(best.ticker)
        /\ \A j \in Survivors(Analysed \ Failing) :
              /\ ScoreOf(j) <= best.score
              /\ ScoreOf(j) = best.score => best.ticker <= j

(* two different tickers share the maximum, a lower-scored one precedes *)
C16_Witness ==
    /\ sel_pc = "gate"
    /\ \E j \in Survivors(Analysed \ Failing) :
          /\ j > best.ticker
          /\ ScoreOf(j) = best.score
          /\ tradable[j] # tradable[best.ticker]
    /\ \E j \in Survivors(Analysed \ Failing) :
          j < best.ticker /\ ScoreOf(j) < best.score

(* C17: find_best_stock returns None whenever the top-ranked candidate has *)
(* final_score < min_score_threshold or avg_gain < min_avg_gain_percent /  *)
(* 100, even if a lower-ranked candidate satisfies both; a returned        *)
(* candidate satisfies both.                                               *)
C17_ThresholdGate ==
    (sel_path = "live" /\ sel_pc = "done") =>
        LET top == TopRanked(Analysed \ Failing)
        IN  /\ sel_result # NoneResult =>
                  /\ sel_result.score >= sel_config.min_score_threshold
                  /\ sel_result.avg_gain >= sel_config.min_avg_gain
            /\ (/\ top # 0
                /\ \/ ScoreOf(top) < sel_config.min_score_threshold
                   \/ tradable[top].avg_gain < sel_config.min_avg_gain) =>
                  sel_result = NoneResult

(* None although a lower-ranked candidate satisfies both thresholds *)
C17_Witness ==
    /\ sel_path = "live" /\ sel_pc = "done"
    /\ sel_result = NoneResult
    /\ LET top == TopRanked(Analysed \ Failing)
       IN  /\ top # 0
           /\ \E j \in Survivors(Analysed \ Failing) \ {top} :
                 /\ ScoreOf(j) >= sel_config.min_score_threshold
                 /\ tradable[j].avg_gain >= sel_config.min_avg_gain

(* C18: a ticker whose analysis raises or has no data is skipped alone:    *)
(* every ticker of the batch is evaluated and the result is the selection  *)
(* from the batch without the failing tickers; a failure of the            *)
(* fundamentals provider does not skip the ticker but gives the neutral    *)
(* metrics (0.5, 0.0, 0.5, 0.5): each call of the provider that fails      *)
(* leaves its metrics neutral.                                             *)
C18_FaultIsolation ==
    sel_pc = "done" =>
        /\ tradable # << >> => sel_i = Len(tradable) + 1
        /\ {results[k].ticker : k \in 1..Len(results)} = Analysed \ Failing
        /\ SelectedTicker = Selection(Analysed \ Failing)
        /\ \A k \in 1..Len(results) :
              LET provider == tradable[results[k].ticker].provider
              IN  /\ ~ provider.earnings_ok =>
                        /\ results[k].eps_beat_rate = 50
                        /\ results[k].avg_eps_surprise = 0
                  /\ ~ provider.recommendations_ok =>
                        results[k].analyst_rating = 50
                  /\ (sel_path = "live" /\ ~ provider.financials_ok) =>
                        results[k].revenue_growth = 50
                  /\ (/\ ~ provider.earnings_ok
                      /\ ~ provider.recommendations_ok
                      /\ ~ provider.financials_ok) =>
                        results[k].fundamental_score
                            = 50 * 50 + 30 * 50 + 15 * 50 + 5 * 50

(* a failing ticker between two analysable ones, a candidate is returned   *)
(* whose fundamentals provider failed                                      *)
C18_Witness ==
    /\ sel_pc = "done"
    /\ sel_result # NoneResult
    /\ sel_path = "live"
    /\ tradable[sel_result.ticker].provider = ProviderFails
    /\ \E i \in Failing :
          /\ tradable[i].kind = "raises"
          /\ \E j \in Analysed \ Failing : j < i
          /\ sel_result.ticker > i

----------------------------------------------------------------------------
(* Properties of the reaction statistics, stated by counting and summing   *)
(* over the positions of the samples                                       *)

StatResult == stat_call.op = "statistics" /\ stat_call.out # NoneResult

RECURSIVE SumAt(_, _)
SumAt(s, K) ==
    IF K = {} THEN 0
    ELSE LET k == CHOOSE x \in K : TRUE IN s[k] + SumAt(s, K \ {k})

(* the fraction f equals n / d *)
FracIs(f, n, d) == f.den > 0 /\ f.num * d = n * f.den

(* C19: for every analysis result that is not None, frequency is the       *)
(* number of samples with gain > 0.01 over the number of samples and lies  *)
(* in [0, 1]; avg_gain is the mean of the gains > 0.01, 0 when there is    *)
(* none; avg_drawdown is the mean of the drawdowns < 0, -0.05 when there   *)
(* is none, hence always < 0; price_score = frequency x avg_gain >= 0;     *)
(* and the gains [0.05, -0.02, 0.03, 0.015] give the frequency 3/4.        *)
C19_ReactionStatistics ==
    StatResult =>
        LET gains == stat_call.all_gains
            drawdowns == stat_call.all_drawdowns
            out == stat_call.out
            Up == {k \in 1..Len(gains) : gains[k] > 100}
            Down == {k \in 1..Len(drawdowns) : drawdowns[k] < 0}
        IN  /\ Len(gains) > 0
            /\ FracIs(out.frequency, Cardinality(Up), Len(gains))
            /\ 0 <= out.frequency.num
            /\ out.frequency.num <= out.frequency.den
            /\ IF Up = {} THEN FracIs(out.avg_gain, 0, 1)
               ELSE FracIs(out.avg_gain, SumAt(gains, Up), Cardinality(Up))
            /\ IF Down = {} THEN FracIs(out.avg_drawdown, -500, 1)
               ELSE FracIs(out.avg_drawdown, SumAt(drawdowns, Down),
                           Cardinality(Down))
            /\ out.avg_drawdown.num < 0
            /\ FracIs(out.price_score,
                      out.frequency.num * out.avg_gain.num,
                      out.frequency.den * out.avg_gain.den)
            /\ out.price_score.num >= 0
            /\ gains = <<500, -200, 300, 150>> =>
                  FracIs(out.frequency, 3, 4)

(* the four gains of the example, on the backtest path, with a drawdown    *)
(* that is not negative among them                                         *)
C19_Witness ==
    /\ StatResult
    /\ stat_call.path = "backtest"
    /\ stat_call.all_gains = <<500, -200, 300, 150>>
    /\ \E k \in 1..4 : stat_call.all_drawdowns[k] >= 0
    /\ stat_call.out.frequency = Frac(3, 4)

----------------------------------------------------------------------------
(* Properties of the reaction sampling *)

NoBarOn(d) == \A k \in 1..Len(hist) : hist[k].date # d

(* the places of the bars dated after d *)
BarsAfter(d) == {k \in 1..Len(hist) : hist[k].date > d}

(* C20: when an earnings event falls on a date with no price bar, the      *)
(* sample is anchored on the next trading day: the entry close is the      *)
(* close of the first bar dated after the event date and the window is     *)
(* the (up to) 5 bars that follow that bar.                                *)
C20_AnchoredOnNextTradingDay ==
    \A k \in 1..Len(samples) :
        NoBarOn(samples[k].event) =>
            /\ BarsAfter(samples[k].event) # {}
            /\ LET first == SetMin(BarsAfter(samples[k].event))
                   following == {j \in BarsAfter(samples[k].event) :
                                    first < j /\ j <= first + 5}
               IN  /\ samples[k].anchor = hist[first].date
                   /\ samples[k].t_close = hist[first].close
                   /\ {samples[k].window[j] :
                          j \in 1..Len(samples[k].window)}
                         = {hist[j].date : j \in following}

----------------------------------------------------------------------------
(* Properties relating the live analysis and the backtest analysis *)

(* the samples the loop of path p takes from the events e, in loop order *)
RECURSIVE SamplesOn(_, _, _, _)
SamplesOn(p, h, e, method) ==
    IF e = << >> THEN << >>
    ELSE LET s == IF p = "live" THEN LiveSample(h, Head(e), method)
                  ELSE BacktestSample(h, Head(e))
         IN  (IF s.taken THEN <<s>> ELSE << >>)
                 \o SamplesOn(p, h, Tail(e), method)

(* what the analysis of path p returns for the history h and the events e *)
AnalysisOn(p, h, e, method) ==
    IF \/ Len(e) < (IF p = "live" THEN MinLiveEvents ELSE MinEstimates)
       \/ h = << >>
        THEN NoneResult
        ELSE LET s == SamplesOn(p, h, e, method)
             IN  ReactionStatistics(p,
                     [k \in 1..Len(s) |-> s[k].perc_gain],
                     [k \in 1..Len(s) |-> s[k].perc_drawdown])

OtherPath == IF ana_path = "live" THEN "backtest" ELSE "live"

SameFraction(f, g) == f.num * g.den = g.num * f.den

SameStatistics(a, b) ==
    IF a = NoneResult \/ b = NoneResult THEN a = b
    ELSE /\ SameFraction(a.frequency, b.frequency)
         /\ SameFraction(a.avg_gain, b.avg_gain)
         /\ SameFraction(a.avg_drawdown, b.avg_drawdown)
         /\ SameFraction(a.price_score, b.price_score)

(* the analysis that ran is the one AnalysisOn describes *)
AnalysisOnIsTheRun ==
    ana_pc = "done" =>
        ana_result = AnalysisOn(ana_path, hist, relevant_dates,
                                get_loc_method)

(* C21: the reaction scoring is the same on the live path and on the       *)
(* backtest path: for the same earnings events and the same price bars     *)
(* the two analyses agree on whether the ticker is rejected (None) and,    *)
(* when it is not, on frequency, avg_gain, avg_drawdown and price_score.   *)
C21_PathsAgree ==
    ana_pc = "done" =>
        SameStatistics(ana_result,
                       AnalysisOn(OtherPath, hist, relevant_dates,
                                  get_loc_method))

----------------------------------------------------------------------------
(* Properties of the fundamental score, in 1/BasisScale *)

FundCall == stat_call.op = "fundamental_score"

(* what the surprise adds to the score: the score less the other terms *)
SurpriseContribution ==
    stat_call.out
        - (50 * stat_call.fundamentals.eps_beat_rate
           + 15 * stat_call.fundamentals.analyst_score
           + 5 * stat_call.fundamentals.revenue_growth_trend)

----------------------------------------------------------------------------
(* Properties of the backtests *)

SimulateCall == sim_request.op = "simulate_trade"

(* the candidate meets the criteria of the backtest path *)
Qualified(c) ==
    /\ "frequency" \in DOMAIN c
    /\ c.frequency >= 40
    /\ c.avg_gain >= 100

(* C24 as stated: on the backtest path a trade is simulated only for a     *)
(* best candidate with frequency >= 0.4 and avg_gain >= 0.01, and every    *)
(* simulation uses take_profit_pct = avg_gain, stop_loss_pct = 1.5 x       *)
(* avg_drawdown without a clamp, and a 5-day hold.                         *)
C24_Original ==
    SimulateCall =>
        /\ Qualified(sim_request.candidate)
        /\ sim_request.take_profit_pct = sim_request.candidate.avg_gain
        /\ 10 * sim_request.stop_loss_pct
              = 15 * sim_request.candidate.avg_drawdown
        /\ sim_request.hold_days = 5

(* C24: simulate_day simulates a trade only for a best candidate with      *)
(* frequency >= 0.4 and avg_gain >= 0.01, with take_profit_pct = avg_gain, *)
(* stop_loss_pct = 1.5 x avg_drawdown without a clamp and a 5-day hold;    *)
(* backtest_strategy simulates every stock of its list, with               *)
(* take_profit_pct = avg_gain, stop_loss_pct = 1.1 x avg_drawdown without  *)
(* a clamp and a 5-day hold.                                               *)
C24_SimulationParameters ==
    SimulateCall =>
        /\ sim_request.take_profit_pct = sim_request.candidate.avg_gain
        /\ sim_request.hold_days = 5
        /\ IF sim_request.caller = "simulate_day"
               THEN /\ Qualified(sim_request.candidate)
                    /\ 10 * sim_request.stop_loss_pct
                          = 15 * sim_request.candidate.avg_drawdown
               ELSE 10 * sim_request.stop_loss_pct
                        = 11 * sim_request.candidate.avg_drawdown

(* simulate_day simulated the candidate with frequency exactly 0.4, with   *)
(* a stop of -30%, beyond the band of the live path                        *)
C24_Witness ==
    /\ SimulateCall
    /\ sim_request.caller = "simulate_day"
    /\ sim_request.candidate.frequency = 40
    /\ sim_request.stop_loss_pct = -3000
    /\ day_result = "trade"

FullRun == component = "backtest" /\ bt_mode = "full"

FullRunDone == FullRun /\ bt_pc = "done"

(* the running peak at the k-th EquityPoint, starting at the initial       *)
(* capital                                                                 *)
PeakAt(k) ==
    SetMax({InitialCapital} \cup {daily_log[j].capital : j \in 1..k})

(* r is 100 x the largest (peak - capital) / peak over the ledger *)
IsLedgerMaxDrawdown(r) ==
    /\ r.den > 0
    /\ \A k \in 1..Len(daily_log) :
          r.num * PeakAt(k)
              >= 100 * (PeakAt(k) - daily_log[k].capital) * r.den
    /\ \/ Len(daily_log) = 0 /\ r.num = 0
       \/ \E k \in 1..Len(daily_log) :
             r.num * PeakAt(k)
                 = 100 * (PeakAt(k) - daily_log[k].capital) * r.den

Wins == {k \in 1..Len(trades) : trades[k].pnl > 0}
Losses == {k \in 1..Len(trades) : trades[k].pnl <= 0}
TradePnls == [k \in 1..Len(trades) |-> trades[k].trade_pnl]

(* C25: run_full_backtest appends exactly one EquityPoint per calendar day *)
(* of the range, in increasing date order; the reported max drawdown is    *)
(* 100 x the maximum over that ledger of (running peak - capital) /        *)
(* running peak, the peak starting at the initial capital; profit_factor   *)
(* is |avg_win / avg_loss| (0 when avg_loss is 0) and win_rate is 100 x    *)
(* wins / trades.                                                          *)
C25_LedgerAndStatistics ==
    FullRun =>
        /\ Len(daily_log) = current_date - 1
        /\ \A k \in 1..Len(daily_log) : daily_log[k].date = k
        /\ bt_pc = "done" => Len(daily_log) = last_date
        /\ (bt_pc = "done" /\ bt_stats.kind = "statistics") =>
              /\ IsLedgerMaxDrawdown(bt_stats.max_drawdown)
              /\ FracIs(bt_stats.win_rate, 100 * Cardinality(Wins),
                        Len(trades))
              /\ IF Wins = {} \/ Losses = {} \/ SumAt(TradePnls, Losses) = 0
                     THEN bt_stats.profit_factor.num = 0
                     ELSE FracIs(bt_stats.profit_factor,
                                 Abs(SumAt(TradePnls, Wins)
                                         * Cardinality(Losses)),
                                 Abs(SumAt(TradePnls, Losses)
                                         * Cardinality(Wins)))

(* a run whose capital first rose above the initial capital and then fell  *)
(* to half its peak, with a winning and a losing trade                     *)
C25_Witness ==
    /\ FullRunDone
    /\ bt_stats.kind = "statistics"
    /\ Len(daily_log) = last_date
    /\ daily_log[2].capital > InitialCapital
    /\ FracIs(bt_stats.max_drawdown, 50, 1)
    /\ FracIs(bt_stats.win_rate, 50, 1)
    /\ bt_stats.profit_factor.num > 0

(* the capital held before the k-th trade *)
CapitalBefore(k) ==
    IF k = 1 THEN InitialCapital ELSE trades[k - 1].capital_after

(* C29: every executed trade changes the capital by the factor 0.15 +      *)
(* 0.85 x exit_price / entry_price, so for positive prices the capital     *)
(* stays strictly positive and one trade loses at most 85% of the capital  *)
(* held before it; the capital is unchanged on days without an executed    *)
(* trade; and num_wins + num_losses = num_trades.                          *)
C29_CapitalFactor ==
    component = "backtest" =>
        /\ \A k \in 1..Len(trades) :
              /\ trades[k].capital_after * 100 * trades[k].entry_price
                    = CapitalBefore(k)
                          * (15 * trades[k].entry_price
                             + 85 * trades[k].exit_price)
              /\ trades[k].capital_after > 0
              /\ (CapitalBefore(k) - trades[k].capital_after) * 100
                    <= 85 * CapitalBefore(k)
              /\ bt_mode = "full" =>
                    trades[k].capital_before = CapitalBefore(k)
        /\ capital = CapitalBefore(Len(trades) + 1)
        /\ capital > 0
        /\ bt_stats.kind = "statistics" =>
              /\ bt_stats.num_trades = Len(trades)
              /\ bt_stats.num_wins + bt_stats.num_losses
                    = bt_stats.num_trades
              /\ bt_stats.final_capital = capital

(* a run with a trade on the first day, none on the second and a losing    *)
(* trade on the third                                                      *)
C29_Witness ==
    /\ FullRunDone
    /\ Len(trades) = 2
    /\ trades[1].analysis_date = 1
    /\ trades[2].analysis_date = 3
    /\ trades[2].pnl < 0
    /\ bt_stats.kind = "statistics"
    /\ bt_stats.num_wins = 1 /\ bt_stats.num_losses = 1

(* the trades decided on day d *)
TradesOn(d) == {k \in 1..Len(trades) : trades[k].analysis_date = d}

(* the ledger around every trade: the point of its day holds the capital   *)
(* before it, the point of the next day the capital after it, wherever the *)
(* trade's exit_date lies                                                  *)
LedgerAroundTrades ==
    \A k \in 1..Len(trades) :
        LET d == trades[k].analysis_date
        IN  /\ d <= Len(daily_log)
            /\ daily_log[d].capital = trades[k].capital_before
            /\ d + 1 <= Len(daily_log) =>
                  daily_log[d + 1].capital = trades[k].capital_after

----------------------------------------------------------------------------
(* Properties of the trade records *)

(* the open rows of the ticker *)
OpenOf(rows, ticker) ==
    {k \in 1..Len(rows) : rows[k].ticker = ticker /\ rows[k].status = "open"}

(* one Database call, from the rows before it to the rows after it *)
LifecycleStep ==
    /\ db_call'.op = "log_trade_entry" =>
          /\ Len(db_trades') = Len(db_trades) + 1
          /\ Len(db_trades') \in OpenOf(db_trades', db_call'.ticker)
    /\ db_call'.op = "get_open_trades" =>
          db_call'.out = {k \in 1..Len(db_trades') :
                             db_trades'[k].status = "open"}
    /\ db_call'.op = "log_trade_exit" =>
          /\ OpenOf(db_trades', db_call'.ticker) = {}
          /\ OpenOf(db_trades, db_call'.ticker) = {} =>
                db_trades' = db_trades
    /\ \A k \in 1..Len(db_trades) :
          db_trades[k].status = "closed" =>
              /\ k <= Len(db_trades')
              /\ db_trades'[k] = db_trades[k]

(* C26: log_trade_entry creates a record with status 'open' that           *)
(* get_open_trades returns; a later log_trade_exit for the same ticker     *)
(* moves every open record of that ticker to 'closed'; a closed record     *)
(* never becomes open again; and log_trade_exit for a ticker without an    *)
(* open record changes no record.                                          *)
C26_TradeRecordLifecycle == [][LifecycleStep]_vars

(* with a database file every call keeps the lifecycle *)
LifecycleOnFile == [][db_path = "file" => LifecycleStep]_vars

----------------------------------------------------------------------------
(* Properties of the live session *)

Deciding == live_pc \in {"rda_can_trade", "rda_find", "rda_log", "rda_place"}

(* C6: in a live session RiskState is updated exactly once per trading     *)
(* day, before any trade decision of that day, over every interleaving of  *)
(* open positions, analysis-hour checks and exceptions followed by the     *)
(* 5-minute retry: never a second update on the same day, and every        *)
(* decision of a day is preceded by that day's single update.              *)
C6_UpdatedOncePerDay ==
    /\ updates_today <= 1
    /\ Deciding => updates_today = 1

(* C27: when a monitored position is closed by its bracket order, the exit *)
(* is logged to the database, so that once monitor_position returns the    *)
(* trade record of that position is no longer 'open'.                      *)
C27_ExitLoggedWhenMonitorReturns ==
    [][LiveMonitorClosed => OpenTrades(db_trades') = {}]_vars

(* C28: the live loop never submits an entry order while an earlier        *)
(* position is still open, and after run_daily_analysis has returned it    *)
(* does not run again on the same calendar date: whatever get_all_positions *)
(* answers, place_bracket_order is reached only when no position is open.  *)
C28_NoEntryWhilePositionOpen ==
    /\ live_pc = "rda_place" => ~ open_position
    /\ live_pc \in {"rda_account", "rda_snapshot", "rda_can_trade",
                    "rda_find", "rda_log", "rda_place", "rda_return"}
          => last_analysis_date # clock.day

=============================================================================
